---- MODULE Spec2Model ----
(***************************************************************************)
(* Model of the repository-ingestion subsystem (RepositoryAnalyzer), the   *)
(* staged pipeline (CoordinatorAgent.generateDocumentation, driven by      *)
(* TechDocsGenerator) and the artifact splitter (parseSpecifications).     *)
(*                                                                         *)
(* Representation of strings.                                              *)
(*   - A short string (path, file name, generated text) is a tuple of      *)
(*     one-character strings: "a.ts" is <<"a", ".", "t", "s">>.            *)
(*   - A file content is a run-length encoded string: a tuple of runs      *)
(*     [ch |-> c, n |-> k] meaning k copies of character c, kept in        *)
(*     normal form (no empty run, no two adjacent runs of one character),  *)
(*     so that two contents are equal exactly when the strings are equal   *)
(*     and the 50,000-character truncation is modelled at its real size.   *)
(*   - A control character is written in caret notation: "^@" is U+0000,   *)
(*     "^K" is U+000B, "^?" is U+007F.                                     *)
(***************************************************************************)
EXTENDS Integers, Sequences, FiniteSets, TLC

(* ------------------------------------------------------------------ *)
(* Short strings                                                       *)
(* ------------------------------------------------------------------ *)

Min(a, b) == IF a <= b THEN a ELSE b

\* JavaScript whitespace removed by String.prototype.trim (the part that
\* occurs in the modelled texts).
WhiteSpace == {" ", "\n", "\t", "\r"}

UpperChars ==
    <<"A","B","C","D","E","F","G","H","I","J","K","L","M",
      "N","O","P","Q","R","S","T","U","V","W","X","Y","Z">>

LowerChars ==
    <<"a","b","c","d","e","f","g","h","i","j","k","l","m",
      "n","o","p","q","r","s","t","u","v","w","x","y","z">>

\* String.prototype.toLowerCase on one character.
LowerChar(c) ==
    IF \E i \in 1..26 : UpperChars[i] = c
    THEN LowerChars[CHOOSE i \in 1..26 : UpperChars[i] = c]
    ELSE c

\* String.prototype.toLowerCase
toLowerCase(s) == [i \in 1..Len(s) |-> LowerChar(s[i])]

\* The 1-based positions at which pat occurs in s.
Occurrences(s, pat) ==
    { i \in 1..(Len(s) - Len(pat) + 1) : SubSeq(s, i, i + Len(pat) - 1) = pat }

\* String.prototype.indexOf, 1-based; 0 when pat does not occur.
IndexOf(s, pat) ==
    LET occ == Occurrences(s, pat)
    IN  IF occ = {} THEN 0 ELSE CHOOSE i \in occ : \A j \in occ : i <= j

\* String.prototype.lastIndexOf, 1-based; 0 when pat does not occur.
LastIndexOf(s, pat) ==
    LET occ == Occurrences(s, pat)
    IN  IF occ = {} THEN 0 ELSE CHOOSE i \in occ : \A j \in occ : i >= j

\* String.prototype.includes
includes(s, pat) == Occurrences(s, pat) # {}

\* String.prototype.startsWith
startsWith(s, pat) == Len(pat) <= Len(s) /\ SubSeq(s, 1, Len(pat)) = pat

\* String.prototype.split with a non-empty literal separator: the pieces
\* between ALL occurrences of the separator, scanning left to right.
RECURSIVE split(_, _)
split(s, sep) ==
    LET i == IndexOf(s, sep)
    IN  IF i = 0
        THEN << s >>
        ELSE << SubSeq(s, 1, i - 1) >>
               \o split(SubSeq(s, i + Len(sep), Len(s)), sep)

\* String.prototype.replace with a literal pattern: first occurrence only.
replace(s, pat, rep) ==
    LET i == IndexOf(s, pat)
    IN  IF i = 0
        THEN s
        ELSE SubSeq(s, 1, i - 1) \o rep \o SubSeq(s, i + Len(pat), Len(s))

\* String.prototype.trim
trim(s) ==
    LET keep == { i \in 1..Len(s) : s[i] \notin WhiteSpace }
    IN  IF keep = {}
        THEN << >>
        ELSE LET lo == CHOOSE i \in keep : \A j \in keep : i <= j
                 hi == CHOOSE i \in keep : \A j \in keep : i >= j
             IN  SubSeq(s, lo, hi)

\* path.basename for a slash-separated path.
basename(p) ==
    LET i == LastIndexOf(p, << "/" >>)
    IN  IF i = 0 THEN p ELSE SubSeq(p, i + 1, Len(p))

\* path.extname: from the last '.' of the base name to its end; empty when
\* there is no '.', when the last '.' is the first character of the base
\* name, and for the base name '..'.
extname(p) ==
    LET b == basename(p)
        i == LastIndexOf(b, << "." >>)
    IN  IF i <= 1 \/ b = << ".", "." >> THEN << >> ELSE SubSeq(b, i, Len(b))

(* ------------------------------------------------------------------ *)
(* File contents (run-length encoded strings)                          *)
(* ------------------------------------------------------------------ *)

Run(c, k) == [ch |-> c, n |-> k]

\* Normal form: empty runs removed, adjacent runs of one character merged.
RECURSIVE CNorm(_)
CNorm(c) ==
    IF c = << >>
    THEN << >>
    ELSE LET h == Head(c)
             r == CNorm(Tail(c))
         IN  IF h.n = 0
             THEN r
             ELSE IF r # << >> /\ Head(r).ch = h.ch
                  THEN << Run(h.ch, h.n + Head(r).n) >> \o Tail(r)
                  ELSE << h >> \o r

\* The content whose characters are those of the short string s.
RECURSIVE CFromText(_)
CFromText(s) ==
    IF s = << >> THEN << >>
    ELSE CNorm(<< Run(Head(s), 1) >> \o CFromText(Tail(s)))

\* content.length
RECURSIVE CLength(_)
CLength(c) == IF c = << >> THEN 0 ELSE Head(c).n + CLength(Tail(c))

\* a + b
CConcat(a, b) == CNorm(a \o b)

\* content.substring(0, k)
RECURSIVE CSubstring0(_, _)
CSubstring0(c, k) ==
    IF c = << >> \/ k <= 0
    THEN << >>
    ELSE IF Head(c).n <= k
         THEN << Head(c) >> \o CSubstring0(Tail(c), k - Head(c).n)
         ELSE << Run(Head(c).ch, k) >>

\* The number of characters of c that belong to the class cls:
\* (content.match(/[cls]/g) || []).length
RECURSIVE CCount(_, _)
CCount(c, cls) ==
    IF c = << >> THEN 0
    ELSE (IF Head(c).ch \in cls THEN Head(c).n ELSE 0) + CCount(Tail(c), cls)

\* content.toLowerCase()
CLower(c) == CNorm([i \in 1..Len(c) |-> Run(LowerChar(c[i].ch), c[i].n)])

\* content.includes(pat) for a non-empty pattern in normal form: some
\* window of consecutive runs of c covers the runs of pat, the inner runs
\* exactly and the two outer runs at least.
CIncludes(c, pat) ==
    LET m == Len(pat)
    IN  \E i \in 1..(Len(c) - m + 1) :
          \A j \in 1..m :
            /\ c[i + j - 1].ch = pat[j].ch
            /\ IF j = 1 \/ j = m
               THEN c[i + j - 1].n >= pat[j].n
               ELSE c[i + j - 1].n = pat[j].n

(* ------------------------------------------------------------------ *)
(* String literals of the program                                      *)
(* ------------------------------------------------------------------ *)

\* The literal '<!-- FUNCTIONAL_SPEC_START -->'.
Marker ==
    <<"<","!","-","-"," ","F","U","N","C","T","I","O","N","A","L","_","S","P",
    "E","C","_","S","T","A","R","T"," ","-","-",">">>

\* The literal '\n... [truncated]'.
TruncMarker ==
    <<"\n",".",".","."," ","[","t","r","u","n","c","a","t","e","d","]">>

\* The literal 'DOCUMENTATION ANALYSIS:'.
DocLabel ==
    <<"D","O","C","U","M","E","N","T","A","T","I","O","N"," ","A","N","A","L",
    "Y","S","I","S",":">>

\* The literal 'CODE ANALYSIS:'.
CodeLabel ==
    <<"C","O","D","E"," ","A","N","A","L","Y","S","I","S",":">>

(* ------------------------------------------------------------------ *)
(* RepositoryAnalyzer: tables                                          *)
(* ------------------------------------------------------------------ *)

supportedExtensions ==
    { <<".","j","s">>,
      <<".","t","s">>,
      <<".","j","s","x">>,
      <<".","t","s","x">>,
      <<".","p","y">>,
      <<".","j","a","v","a">>,
      <<".","c","s">>,
      <<".","c","p","p">>,
      <<".","c">>,
      <<".","h">>,
      <<".","p","h","p">>,
      <<".","r","b">>,
      <<".","g","o">>,
      <<".","r","s">>,
      <<".","s","w","i","f","t">>,
      <<".","k","t">>,
      <<".","s","c","a","l","a">>,
      <<".","c","l","j">>,
      <<".","h","s">>,
      <<".","m","d">>,
      <<".","t","x","t">>,
      <<".","j","s","o","n">>,
      <<".","y","m","l">>,
      <<".","y","a","m","l">>,
      <<".","x","m","l">>,
      <<".","h","t","m","l">>,
      <<".","c","s","s">>,
      <<".","s","c","s","s">>,
      <<".","s","q","l">>,
      <<".","s","h">>,
      <<".","b","a","t">>,
      <<".","p","s","1">>,
      <<".","d","o","c","k","e","r","f","i","l","e">>,
      <<".","t","f">> }

importantFiles ==
    << <<"r","e","a","d","m","e">>,
       <<"l","i","c","e","n","s","e">>,
       <<"c","h","a","n","g","e","l","o","g">>,
       <<"c","o","n","t","r","i","b","u","t","i","n","g">>,
       <<"d","o","c","k","e","r","f","i","l","e">>,
       <<"m","a","k","e","f","i","l","e">>,
       <<"r","a","k","e","f","i","l","e">>,
       <<"g","e","m","f","i","l","e">>,
       <<"p","a","c","k","a","g","e",".","j","s","o","n">>,
       <<"c","o","m","p","o","s","e","r",".","j","s","o","n">>,
       <<"r","e","q","u","i","r","e","m","e","n","t","s",".","t","x","t">>,
       <<"s","e","t","u","p",".","p","y">>,
       <<"p","o","m",".","x","m","l">>,
       <<"b","u","i","l","d",".","g","r","a","d","l","e">> >>

skipPatterns ==
    << <<"n","o","d","e","_","m","o","d","u","l","e","s">>,
       <<".","g","i","t">>,
       <<".","v","s","c","o","d","e">>,
       <<".","i","d","e","a">>,
       <<"d","i","s","t">>,
       <<"b","u","i","l","d">>,
       <<"t","a","r","g","e","t">>,
       <<"b","i","n">>,
       <<"o","b","j">>,
       <<"_","_","p","y","c","a","c","h","e","_","_">>,
       <<".","p","y","t","e","s","t","_","c","a","c","h","e">>,
       <<"c","o","v","e","r","a","g","e">>,
       <<".","n","y","c","_","o","u","t","p","u","t">>,
       <<"l","o","g","s">>,
       <<"t","m","p">>,
       <<"t","e","m","p">>,
       <<".","D","S","_","S","t","o","r","e">>,
       <<"T","h","u","m","b","s",".","d","b">> >>

languageMap ==
    { << <<".","j","s">>, "javascript">>,
      << <<".","j","s","x">>, "javascript">>,
      << <<".","t","s">>, "typescript">>,
      << <<".","t","s","x">>, "typescript">>,
      << <<".","p","y">>, "python">>,
      << <<".","j","a","v","a">>, "java">>,
      << <<".","c","s">>, "csharp">>,
      << <<".","c","p","p">>, "cpp">>,
      << <<".","c">>, "c">>,
      << <<".","h">>, "c">>,
      << <<".","p","h","p">>, "php">>,
      << <<".","r","b">>, "ruby">>,
      << <<".","g","o">>, "go">>,
      << <<".","r","s">>, "rust">>,
      << <<".","s","w","i","f","t">>, "swift">>,
      << <<".","k","t">>, "kotlin">>,
      << <<".","s","c","a","l","a">>, "scala">>,
      << <<".","c","l","j">>, "clojure">>,
      << <<".","h","s">>, "haskell">>,
      << <<".","m","d">>, "markdown">>,
      << <<".","h","t","m","l">>, "html">>,
      << <<".","c","s","s">>, "css">>,
      << <<".","s","c","s","s">>, "scss">>,
      << <<".","s","q","l">>, "sql">>,
      << <<".","j","s","o","n">>, "json">>,
      << <<".","y","m","l">>, "yaml">>,
      << <<".","y","a","m","l">>, "yaml">>,
      << <<".","x","m","l">>, "xml">>,
      << <<".","s","h">>, "shell">>,
      << <<".","b","a","t">>, "batch">>,
      << <<".","p","s","1">>, "powershell">> }

codeExts ==
    { <<".","j","s">>,
      <<".","t","s">>,
      <<".","p","y">>,
      <<".","j","a","v","a">>,
      <<".","c","s">>,
      <<".","c","p","p">>,
      <<".","g","o">>,
      <<".","r","s">> }

(* ------------------------------------------------------------------ *)
(* RepositoryAnalyzer: pure functions                                  *)
(* ------------------------------------------------------------------ *)

\* A value of type string | null.
NULL == [some |-> FALSE, val |-> << >>]

Some(v) == [some |-> TRUE, val |-> v]

\* The character class of the binary heuristic:
\* [\x00-\x08\x0E-\x1F\x7F]; tab, LF, VT, FF and CR are outside it.
NonPrintableChars ==
    { "^@", "^A", "^B", "^C", "^D", "^E", "^F", "^G", "^H",
      "^N", "^O", "^P", "^Q", "^R", "^S", "^T", "^U", "^V", "^W", "^X",
      "^Y", "^Z", "^[", "^\\", "^]", "^^", "^_", "^?" }

\* nonPrintableChars !== null && nonPrintableChars.length > length * 0.1
\* (k > len * 0.1 in doubles is k * 10 > len for the integers k, len: the
\* product len * 0.1 never rounds below len / 10.)
isBinaryContent(content) ==
    LET k == CCount(content, NonPrintableChars)
    IN  k # 0 /\ k * 10 > CLength(content)

\* readFileContent with the truncation marker left out.
readFileContent_noMarker(read) ==
    IF read.err
    THEN NULL
    ELSE IF CLength(read.data) > 50000
         THEN Some(CSubstring0(read.data, 50000))
         ELSE IF isBinaryContent(read.data)
              THEN NULL
              ELSE Some(read.data)

\* readFileContent: read is the outcome of fs.readFile(filePath, 'utf-8'),
\* [err |-> TRUE] when it throws and [err |-> FALSE, data |-> text] otherwise.
readFileContent(read) ==
    IF read.err
    THEN NULL
    ELSE IF CLength(read.data) > 50000
         THEN Some(CConcat(CSubstring0(read.data, 50000), CFromText(TruncMarker)))
         ELSE IF isBinaryContent(read.data)
              THEN NULL
              ELSE Some(read.data)

\* fetchGithubFileContent without the test of data.encoding.
fetchGithubFileContent_anyEncoding(resp) ==
    IF resp.threw
    THEN NULL
    ELSE IF ~resp.ok
         THEN NULL
         ELSE IF isBinaryContent(resp.text)
              THEN NULL
              ELSE IF CLength(resp.text) > 50000
                   THEN Some(CConcat(CSubstring0(resp.text, 50000),
                                     CFromText(TruncMarker)))
                   ELSE Some(resp.text)

\* fetchGithubFileContent: resp is the outcome of the blob request, with
\* threw (fetch or response.json() threw), ok (response.ok), encoding
\* (data.encoding) and text, the string that
\* Buffer.from(data.content, 'base64').toString('utf-8') yields.
fetchGithubFileContent(resp) ==
    IF resp.threw
    THEN NULL
    ELSE IF ~resp.ok
         THEN NULL
         ELSE IF resp.encoding = "base64"
              THEN IF isBinaryContent(resp.text)
                   THEN NULL
                   ELSE IF CLength(resp.text) > 50000
                        THEN Some(CConcat(CSubstring0(resp.text, 50000),
                                          CFromText(TruncMarker)))
                        ELSE Some(resp.text)
              ELSE NULL

\* shouldSkipPath
shouldSkipPath(relativePath) ==
    \E i \in 1..Len(skipPatterns) :
        \/ includes(relativePath, skipPatterns[i])
        \/ startsWith(relativePath, << "." >>)

\* shouldIncludeFile refusing a file of exactly 1024 * 1024 bytes as well.
shouldIncludeFile_strict(filename, size) ==
    LET ext == toLowerCase(extname(filename))
    IN  IF size >= 1024 * 1024
        THEN FALSE
        ELSE IF ext \in supportedExtensions
             THEN TRUE
             ELSE \E i \in 1..Len(importantFiles) :
                     includes(toLowerCase(filename), importantFiles[i])

\* shouldIncludeFile
shouldIncludeFile(filename, size) ==
    LET ext == toLowerCase(extname(filename))
    IN  IF size > 1024 * 1024
        THEN FALSE
        ELSE IF ext \in supportedExtensions
             THEN TRUE
             ELSE \E i \in 1..Len(importantFiles) :
                     includes(toLowerCase(filename), importantFiles[i])

\* shouldIncludeGithubFile without the shouldSkipPath test.
shouldIncludeGithubFile_noSkip(filePath, size) ==
    shouldIncludeFile(basename(filePath), size)

\* shouldIncludeGithubFile
shouldIncludeGithubFile(filePath, size) ==
    LET filename == basename(filePath)
        ext == toLowerCase(extname(filename))
    IN  IF size > 1024 * 1024
        THEN FALSE
        ELSE IF shouldSkipPath(filePath)
             THEN FALSE
             ELSE IF ext \in supportedExtensions
                  THEN TRUE
                  ELSE \E i \in 1..Len(importantFiles) :
                          includes(toLowerCase(filename), importantFiles[i])

\* detectLanguage
detectLanguage(filename) ==
    LET ext == toLowerCase(extname(filename))
    IN  IF \E e \in languageMap : e[1] = ext
        THEN (CHOOSE e \in languageMap : e[1] = ext)[2]
        ELSE "unknown"

\* getFileImportanceScore
getFileImportanceScore(filePath) ==
    LET filename == toLowerCase(basename(filePath))
    IN  IF includes(filename, <<"r","e","a","d","m","e">>) THEN 100
        ELSE IF includes(filename, <<"p","a","c","k","a","g","e",".","j","s","o","n">>)
        THEN 95
        ELSE IF includes(filename, <<"d","o","c","k","e","r","f","i","l","e">>)
        THEN 90
        ELSE IF \/ includes(filename, <<"m","a","i","n",".">>)
                \/ includes(filename, <<"i","n","d","e","x",".">>)
        THEN 85
        ELSE IF \/ includes(filename, <<"a","p","p",".">>)
                \/ includes(filename, <<"s","e","r","v","e","r",".">>)
        THEN 80
        ELSE IF extname(filename) = <<".","m","d">> THEN 70
        ELSE IF includes(filename, <<"c","o","n","f","i","g">>) THEN 65
        ELSE IF \/ includes(filename, <<"s","e","t","u","p">>)
                \/ includes(filename, <<"i","n","s","t","a","l","l">>)
        THEN 60
        ELSE IF extname(filename) \in codeExts THEN 50
        ELSE 30

\* The comparator with its operands exchanged: ascending by score.
compareFiles_ascending(a, b) ==
    getFileImportanceScore(a.path) - getFileImportanceScore(b.path)

\* The comparator given to files.sort: negative when a sorts before b.
compareFiles(a, b) ==
    getFileImportanceScore(b.path) - getFileImportanceScore(a.path)

\* An insertion that puts x in front of the elements it ties with, as an
\* unstable sort may.
insertSorted_unstable(s, x) ==
    LET behind == { i \in 1..Len(s) : compareFiles(s[i], x) >= 0 }
        k == IF behind = { }
             THEN Len(s) + 1
             ELSE CHOOSE i \in behind : \A j \in behind : i <= j
    IN  SubSeq(s, 1, k - 1) \o << x >> \o SubSeq(s, k, Len(s))

\* One insertion of Array.prototype.sort: x goes in front of the first
\* element that sorts after it, so behind the elements it ties with (the
\* sort is stable, ECMAScript 2019).
insertSorted(s, x) ==
    LET behind == { i \in 1..Len(s) : compareFiles(s[i], x) > 0 }
        k == IF behind = { }
             THEN Len(s) + 1
             ELSE CHOOSE i \in behind : \A j \in behind : i <= j
    IN  SubSeq(s, 1, k - 1) \o << x >> \o SubSeq(s, k, Len(s))

\* The elements of t inserted into s one after the other, from first to
\* last: the first half of t, then the second half into what that gave.
RECURSIVE insertAll(_, _)
insertAll(s, t) ==
    IF t = << >>
    THEN s
    ELSE IF Len(t) = 1
         THEN insertSorted(s, t[1])
         ELSE LET half == Len(t) \div 2
                  first == insertAll(s, SubSeq(t, 1, half))
              IN  IF first = << >>
                  THEN insertAll(<< >>, SubSeq(t, half + 1, Len(t)))
                  ELSE insertAll(first, SubSeq(t, half + 1, Len(t)))

\* files.sort((a, b) => bScore - aScore)
sortFiles(fs) == insertAll(<< >>, fs)

(* ------------------------------------------------------------------ *)
(* CoordinatorAgent: pure functions                                    *)
(* ------------------------------------------------------------------ *)

\* The keyword -> label table of extractFrameworks, in the order tested.
frameworkTable ==
    << << <<"r","e","a","c","t">>, "React">>,
       << <<"a","n","g","u","l","a","r">>, "Angular">>,
       << <<"v","u","e">>, "Vue.js">>,
       << <<"e","x","p","r","e","s","s">>, "Express.js">>,
       << <<"d","j","a","n","g","o">>, "Django">>,
       << <<"f","l","a","s","k">>, "Flask">>,
       << <<"s","p","r","i","n","g">>, "Spring">>,
       << <<".","n","e","t">>, ".NET">>,
       << <<"f","a","s","t","a","p","i">>, "FastAPI">>,
       << <<"n","e","x","t">>, "Next.js">>,
       << <<"n","u","x","t">>, "Nuxt.js">> >>

\* generateFallbackFunctionalSpec: the fixed HTML document.
generateFallbackFunctionalSpec ==
    <<"<","!","D","O","C","T","Y","P","E"," ","h","t","m","l",">","\n","<","h",
    "t","m","l",">","\n","<","h","e","a","d",">","\n"," "," "," "," ","<",
    "t","i","t","l","e",">","F","u","n","c","t","i","o","n","a","l"," ","S",
    "p","e","c","i","f","i","c","a","t","i","o","n","<","/","t","i","t","l",
    "e",">","\n"," "," "," "," ","<","s","t","y","l","e",">","\n"," "," ",
    " "," "," "," "," "," ","b","o","d","y"," ","{"," ","f","o","n","t","-",
    "f","a","m","i","l","y",":"," ","A","r","i","a","l",","," ","s","a","n",
    "s","-","s","e","r","i","f",";"," ","l","i","n","e","-","h","e","i","g",
    "h","t",":"," ","1",".","6",";"," ","m","a","r","g","i","n",":"," ","2",
    "0","p","x",";"," ","}","\n"," "," "," "," "," "," "," "," ","h","1",
    " ","{"," ","c","o","l","o","r",":"," ","#","2","c","3","e","5","0",";",
    " ","b","o","r","d","e","r","-","b","o","t","t","o","m",":"," ","2","p",
    "x"," ","s","o","l","i","d"," ","#","3","4","9","8","d","b",";"," ","p",
    "a","d","d","i","n","g","-","b","o","t","t","o","m",":"," ","1","0","p",
    "x",";"," ","}","\n"," "," "," "," "," "," "," "," ","h","2"," ","{",
    " ","c","o","l","o","r",":"," ","#","3","4","4","9","5","e",";"," ","m",
    "a","r","g","i","n","-","t","o","p",":"," ","3","0","p","x",";"," ","}",
    "\n"," "," "," "," "," "," "," "," ",".","r","e","q","u","i","r","e",
    "m","e","n","t"," ","{"," ","b","a","c","k","g","r","o","u","n","d",":",
    " ","#","e","c","f","0","f","1",";"," ","p","a","d","d","i","n","g",":",
    " ","1","5","p","x",";"," ","b","o","r","d","e","r","-","l","e","f","t",
    ":"," ","4","p","x"," ","s","o","l","i","d"," ","#","3","4","9","8","d",
    "b",";"," ","m","a","r","g","i","n",":"," ","1","0","p","x"," ","0",";",
    " ","}","\n"," "," "," "," ","<","/","s","t","y","l","e",">","\n","<",
    "/","h","e","a","d",">","\n","<","b","o","d","y",">","\n"," "," "," ",
    " ","<","h","1",">","F","u","n","c","t","i","o","n","a","l"," ","S","p",
    "e","c","i","f","i","c","a","t","i","o","n","<","/","h","1",">","\n",
    " "," "," "," ","<","h","2",">","O","v","e","r","v","i","e","w","<","/",
    "h","2",">","\n"," "," "," "," ","<","p",">","T","h","i","s"," ","d",
    "o","c","u","m","e","n","t"," ","o","u","t","l","i","n","e","s"," ","t",
    "h","e"," ","f","u","n","c","t","i","o","n","a","l"," ","r","e","q","u",
    "i","r","e","m","e","n","t","s"," ","a","n","d"," ","s","p","e","c","i",
    "f","i","c","a","t","i","o","n","s"," ","f","o","r"," ","t","h","e"," ",
    "a","n","a","l","y","z","e","d"," ","s","y","s","t","e","m",".","<","/",
    "p",">","\n","\n"," "," "," "," ","<","d","i","v"," ","c","l","a","s",
    "s","=","\"","r","e","q","u","i","r","e","m","e","n","t","\"",">","\n",
    " "," "," "," "," "," "," "," ","<","h","3",">","C","o","r","e"," ","F",
    "u","n","c","t","i","o","n","a","l","i","t","y","<","/","h","3",">",
    "\n"," "," "," "," "," "," "," "," ","<","p",">","T","h","e"," ","s",
    "y","s","t","e","m"," ","p","r","o","v","i","d","e","s"," ","c","o","r",
    "e"," ","f","u","n","c","t","i","o","n","a","l","i","t","y"," ","b","a",
    "s","e","d"," ","o","n"," ","t","h","e"," ","a","n","a","l","y","z","e",
    "d"," ","c","o","d","e","b","a","s","e",".","<","/","p",">","\n"," ",
    " "," "," ","<","/","d","i","v",">","\n","\n"," "," "," "," ","<","h",
    "2",">","R","e","q","u","i","r","e","m","e","n","t","s","<","/","h","2",
    ">","\n"," "," "," "," ","<","p",">","D","e","t","a","i","l","e","d",
    " ","f","u","n","c","t","i","o","n","a","l"," ","r","e","q","u","i","r",
    "e","m","e","n","t","s"," ","b","a","s","e","d"," ","o","n"," ","c","o",
    "d","e"," ","a","n","a","l","y","s","i","s",".","<","/","p",">","\n",
    "<","/","b","o","d","y",">","\n","<","/","h","t","m","l",">">>

\* The contents joined with nothing in between.
RECURSIVE joinContents_noSeparator(_)
joinContents_noSeparator(fs) ==
    IF fs = << >>
    THEN << >>
    ELSE CConcat(fs[1].content, joinContents_noSeparator(Tail(fs)))

\* files.map(f => f.content).join(' ')
RECURSIVE joinContents(_)
joinContents(fs) ==
    IF fs = << >>
    THEN << >>
    ELSE IF Len(fs) = 1
         THEN fs[1].content
         ELSE CConcat(CConcat(fs[1].content, << Run(" ", 1) >>),
                      joinContents(Tail(fs)))

\* [...new Set(xs)]: the distinct elements in order of first occurrence.
RECURSIVE distinct(_)
distinct(xs) ==
    IF xs = << >>
    THEN << >>
    ELSE LET init == distinct(SubSeq(xs, 1, Len(xs) - 1))
             x == xs[Len(xs)]
         IN  IF \E i \in 1..Len(init) : init[i] = x
             THEN init
             ELSE Append(init, x)

\* extractFrameworks
extractFrameworks(fs) ==
    LET content == CLower(joinContents(fs))
        hit(i) == CIncludes(content, CFromText(frameworkTable[i][1]))
        RECURSIVE pushed(_)
        pushed(i) ==
            IF i = 0 THEN << >>
            ELSE IF hit(i)
                 THEN Append(pushed(i - 1), frameworkTable[i][2])
                 ELSE pushed(i - 1)
    IN  distinct(pushed(Len(frameworkTable)))

\* files.map(f => f.language).filter(l => l !== 'unknown'), made distinct.
codeLanguagesOf(fs) ==
    distinct(SelectSeq([i \in 1..Len(fs) |-> fs[i].language],
                       LAMBDA l : l # "unknown"))

\* parseSpecifications.  x?.trim() || y: y when x is undefined or trims to
\* the empty string.
parseSpecifications(specifications, fs) ==
    LET parts == split(specifications, Marker)
        technicalSpec ==
            IF trim(parts[1]) # << >> THEN trim(parts[1]) ELSE specifications
        functionalSpec ==
            IF Len(parts) >= 2 /\ trim(parts[2]) # << >>
            THEN trim(parts[2])
            ELSE generateFallbackFunctionalSpec
    IN  [ technicalSpec |-> technicalSpec,
          functionalSpec |-> functionalSpec,
          metadata |-> [ filesAnalyzed |-> Len(fs),
                         codeLanguages |-> codeLanguagesOf(fs),
                         frameworks |-> extractFrameworks(fs),
                         architecture |-> "Multi-tier" ] ]

\* reviewAnalysis, given the text enhancedAnalysis that generateText returned.
reviewAnalysis(codeAnalysis, docAnalysis, enhancedAnalysis) ==
    LET parts == split(enhancedAnalysis, DocLabel)
        code == trim(replace(parts[1], CodeLabel, << >>))
    IN  [ codeAnalysis |-> IF code # << >> THEN code ELSE codeAnalysis,
          docAnalysis |->
              IF Len(parts) >= 2 /\ trim(parts[2]) # << >>
              THEN trim(parts[2])
              ELSE docAnalysis ]

\* sendDocumentation without its try/catch: a failing token acquisition or
\* send call escapes as an exception.
sendDocumentation_noCatch(env) ==
    IF env.token = "ok" /\ env.send = "ok"
    THEN [threw |-> FALSE, value |-> TRUE]
    ELSE [threw |-> TRUE, value |-> FALSE]

\* EmailAgent.sendDocumentation, given what its collaborators do: env.content
\* (generateEmailContent's model call), env.token (token acquisition) and
\* env.send (the Graph sendMail call) are "ok" or "fail".  A failing model
\* call is caught inside generateEmailContent (fallback content); a failing
\* token or send is caught by sendDocumentation's own try/catch.
sendDocumentation(env) ==
    IF env.token = "ok" /\ env.send = "ok"
    THEN [threw |-> FALSE, value |-> TRUE]
    ELSE [threw |-> FALSE, value |-> FALSE]

(* ------------------------------------------------------------------ *)
(* RepositoryAnalyzer: the GitHub URL and the tree-listing errors      *)
(* ------------------------------------------------------------------ *)

GithubHost == <<"g","i","t","h","u","b",".","c","o","m","/">>

\* The capture groups of /github\.com\/([^\/]+)\/([^\/]+)/ when the
\* literal 'github.com/' is matched at position i: the owner is the run of
\* non-slash characters behind it, which a '/' must follow, and the repo is
\* the run of non-slash characters behind that '/'.
groupsAt(repoUrl, i) ==
    LET rest == SubSeq(repoUrl, i + Len(GithubHost), Len(repoUrl))
        k == IndexOf(rest, << "/" >>)
        rest2 == SubSeq(rest, k + 1, Len(rest))
        k2 == IndexOf(rest2, << "/" >>)
        repo == IF k2 = 0 THEN rest2 ELSE SubSeq(rest2, 1, k2 - 1)
    IN  [ ok |-> k >= 2 /\ repo # << >>,
          owner |-> SubSeq(rest, 1, k - 1),
          repo |-> repo ]

\* repoUrl.match(/github\.com\/([^\/]+)\/([^\/]+)/): the leftmost match.
matchGithubUrl(repoUrl) ==
    LET good == { i \in Occurrences(repoUrl, GithubHost) : groupsAt(repoUrl, i).ok }
    IN  IF good = {}
        THEN [ ok |-> FALSE, owner |-> << >>, repo |-> << >> ]
        ELSE groupsAt(repoUrl, CHOOSE i \in good : \A j \in good : i <= j)

\* const repoName = repo.replace('.git', '')
repoNameOf(repo) == replace(repo, <<".","g","i","t">>, << >>)

MsgInvalidUrl ==
    <<"I","n","v","a","l","i","d"," ","G","i","t","H","u","b"," ","r","e","p",
      "o","s","i","t","o","r","y"," ","U","R","L"," ","f","o","r","m","a",
      "t">>

MsgNotFound ==
    <<"R","e","p","o","s","i","t","o","r","y"," ","n","o","t"," ","f","o","u",
      "n","d"," ","o","r"," ","a","c","c","e","s","s"," ","d","e","n","i","e",
      "d","."," ","P","l","e","a","s","e"," ","c","h","e","c","k"," ","t","h",
      "e"," ","U","R","L"," ","a","n","d"," ","e","n","s","u","r","e"," ","y",
      "o","u"," ","h","a","v","e"," ","p","r","o","p","e","r"," ","p","e","r",
      "m","i","s","s","i","o","n","s",".">>

MsgAuthFailed ==
    <<"A","u","t","h","e","n","t","i","c","a","t","i","o","n"," ","f","a","i",
      "l","e","d","."," ","P","l","e","a","s","e"," ","p","r","o","v","i","d",
      "e"," ","a"," ","v","a","l","i","d"," ","G","i","t","H","u","b"," ","P",
      "e","r","s","o","n","a","l"," ","A","c","c","e","s","s"," ","T","o","k",
      "e","n"," ","f","o","r"," ","p","r","i","v","a","t","e"," ","r","e","p",
      "o","s","i","t","o","r","i","e","s",".">>

MsgApiErrorPrefix ==
    <<"G","i","t","H","u","b"," ","A","P","I"," ","e","r","r","o","r",":"," ">>

\* `GitHub API error: ${treeResponse.status} ${treeResponse.statusText}`
apiErrorMessage(resp) ==
    MsgApiErrorPrefix \o resp.status \o << " " >> \o resp.statusText

\* The catch block without its first test.
analyzeGithubRepoCatch_noNotFound(errorMessage) ==
    IF \/ includes(errorMessage, << "4", "0", "1" >>)
       \/ includes(errorMessage, << "4", "0", "3" >>)
    THEN MsgAuthFailed
    ELSE errorMessage

\* The catch block of analyzeGithubRepo: the message of the error it throws
\* for a caught error with message errorMessage.
analyzeGithubRepoCatch(errorMessage) ==
    IF includes(errorMessage, <<"4","0","4">>)
    THEN MsgNotFound
    ELSE IF \/ includes(errorMessage, <<"4","0","1">>)
            \/ includes(errorMessage, <<"4","0","3">>)
         THEN MsgAuthFailed
         ELSE errorMessage

\* The filter with the cap of 100 put on the listing instead of on the
\* filtered entries.
filterTree_capFirst(entries) ==
    SelectSeq(SubSeq(entries, 1, Min(Len(entries), 100)),
              LAMBDA item : /\ item.type = "blob"
                            /\ shouldIncludeGithubFile(item.path, item.size))

\* treeData.tree.filter(item => item.type === 'blob' &&
\*     shouldIncludeGithubFile(item.path, item.size || 0)).slice(0, 100)
filterTree(entries) ==
    LET kept == SelectSeq(entries,
                    LAMBDA item : /\ item.type = "blob"
                                  /\ shouldIncludeGithubFile(item.path, item.size))
    IN  SubSeq(kept, 1, Min(Len(kept), 100))

\* The FileInfo built from a tree entry and its fetched content:
\* size: item.size || content.length
githubFileInfo(item, content) ==
    [ path |-> item.path,
      content |-> content,
      language |-> detectLanguage(item.path),
      size |-> IF item.size # 0 THEN item.size ELSE CLength(content) ]

\* The FileInfo walkDirectory pushes: language from the item name.
localFileInfo(relativePath, item, content, size) ==
    [ path |-> relativePath,
      content |-> content,
      language |-> detectLanguage(item),
      size |-> size ]

\* path.dirname relative to the root: empty for a top-level entry.
dirname(p) ==
    LET i == LastIndexOf(p, << "/" >>)
    IN  IF i = 0 THEN << >> ELSE SubSeq(p, 1, i - 1)

\* fs.readdir(dir): the entries directly inside dir, in listing order.
readdir(entries, dir) ==
    SelectSeq(entries, LAMBDA e : dirname(e.path) = dir)

\* walkDirectory without its first line: no bound on the depth.
walkDirectoryEnter_unbounded(dir, depth, readdirThrows) ==
    IF readdirThrows
    THEN << >>
    ELSE << [ dir |-> dir, idx |-> 1, depth |-> depth ] >>

\* The first lines of walkDirectory: nothing is walked beyond depth 10 or
\* when fs.readdir throws; otherwise the directory's frame goes on the stack.
walkDirectoryEnter(dir, depth, readdirThrows) ==
    IF depth > 10 \/ readdirThrows
    THEN << >>
    ELSE << [ dir |-> dir, idx |-> 1, depth |-> depth ] >>

(* ------------------------------------------------------------------ *)
(* Inputs                                                              *)
(* ------------------------------------------------------------------ *)

\* The longest input text of the splitter, in pieces.
MaxPieces == 2

\* The pieces the splitter's input texts are built from: a letter, two
\* kinds of whitespace, the marker and a proper prefix of the marker.
TextPieces ==
    { << "a" >>, << " " >>, << "\n" >>, Marker, << "<", "!", "-", "-" >> }

RECURSIVE PieceStrings(_)
PieceStrings(k) ==
    IF k = 0
    THEN { << >> }
    ELSE LET prev == PieceStrings(k - 1)
         IN  prev \cup { s \o p : s \in prev, p \in TextPieces }

\* A tree entry: repository-relative path, 'blob' or 'tree', size in bytes.
Entry(p, t, s) == [ path |-> p, type |-> t, size |-> s ]

\* Source trees.  The first has two files of equal score (a.ts, util.ts)
\* listed around higher-scored ones and a skipped directory; the second
\* has a hidden file, a file of no accepted kind, an entry of reported
\* size 0, a file of exactly 1024 * 1024 bytes and one a byte larger.
SourceTrees ==
    { << Entry(<<"a",".","t","s">>, "blob", 30),
         Entry(<<"R","E","A","D","M","E",".","m","d">>, "blob", 10),
         Entry(<<"s","r","c">>, "tree", 0),
         Entry(<<"s","r","c","/","u","t","i","l",".","t","s">>, "blob", 30),
         Entry(<<"s","r","c","/","i","n","d","e","x",".","t","s">>, "blob", 20),
         Entry(<<"n","o","d","e","_","m","o","d","u","l","e","s">>, "tree", 0),
         Entry(<<"n","o","d","e","_","m","o","d","u","l","e","s","/","x",".","j","s">>,
               "blob", 5) >>,
      << Entry(<<"s","e","t","u","p",".","p","y">>, "blob", 40),
         Entry(<<"d","o","c","s">>, "tree", 0),
         Entry(<<"d","o","c","s","/","g","u","i","d","e",".","m","d">>, "blob", 0),
         Entry(<<".","e","n","v">>, "blob", 7),
         Entry(<<"l","o","g","o",".","p","n","g">>, "blob", 900),
         Entry(<<"m","a","x",".","j","s">>, "blob", 1048576),
         Entry(<<"b","i","g",".","t","s">>, "blob", 1048577) >> }

\* File texts: empty; short text; short with more than 10% control
\* characters; exactly 50,000 characters; 50,001 characters of text;
\* 50,001 control characters; 50,000 control characters followed by
\* 450,000 letters (exactly 10% control characters).
SampleContents ==
    { << >>,
      << Run("a", 2), Run("\n", 1), Run("^K", 1) >>,
      << Run("^@", 2), Run("a", 3) >>,
      << Run("a", 50000) >>,
      << Run("a", 50001) >>,
      << Run("^@", 50001) >>,
      << Run("^@", 50000), Run("a", 450000) >> }

\* Outcomes of fs.readFile(filePath, 'utf-8').
ReadOutcomes ==
    { [ err |-> TRUE, data |-> << >> ] }
        \cup { [ err |-> FALSE, data |-> c ] : c \in SampleContents }

\* Outcomes of the blob request of one file.
BlobResponses ==
    { [ threw |-> TRUE, ok |-> FALSE, encoding |-> "", text |-> << >> ],
      [ threw |-> FALSE, ok |-> FALSE, encoding |-> "", text |-> << >> ],
      [ threw |-> FALSE, ok |-> TRUE, encoding |-> "utf-8", text |-> << >> ] }
        \cup { [ threw |-> FALSE, ok |-> TRUE, encoding |-> "base64", text |-> c ] :
                 c \in SampleContents }

\* Outcomes of the tree-listing request: the call throws, or answers with a
\* status.
TreeResponses ==
    { [ threw |-> FALSE, ok |-> TRUE, status |-> <<"2","0","0">>,
        statusText |-> <<"O","K">> ],
      [ threw |-> FALSE, ok |-> FALSE, status |-> <<"4","0","4">>,
        statusText |-> <<"N","o","t"," ","F","o","u","n","d">> ],
      [ threw |-> FALSE, ok |-> FALSE, status |-> <<"4","0","3">>,
        statusText |-> <<"F","o","r","b","i","d","d","e","n">> ],
      [ threw |-> FALSE, ok |-> FALSE, status |-> <<"4","0","1">>,
        statusText |-> <<"U","n","a","u","t","h","o","r","i","z","e","d">> ],
      [ threw |-> FALSE, ok |-> FALSE, status |-> <<"5","0","0">>,
        statusText |-> <<"I","n","t","e","r","n","a","l"," ","S","e","r","v","e",
                         "r"," ","E","r","r","o","r">> ],
      [ threw |-> TRUE, ok |-> FALSE, status |-> << >>,
        statusText |-> <<"f","e","t","c","h"," ","f","a","i","l","e","d">> ] }

\* Repository URLs: plain, with scheme and '.git' suffix, not a GitHub URL.
RepoUrls ==
    { <<"g","i","t","h","u","b",".","c","o","m","/","o","/","r">>,
      <<"h","t","t","p","s",":","/","/","g","i","t","h","u","b",".","c","o","m",
        "/","o","/","r",".","g","i","t">>,
      <<"g","i","t","l","a","b",".","c","o","m","/","o","/","r">> }

\* File lists handed to parseSpecifications.
SampleFileLists ==
    { << >>,
      << localFileInfo(<<"R","E","A","D","M","E",".","m","d">>,
                       <<"R","E","A","D","M","E",".","m","d">>,
                       CFromText(<<"U","s","e","s"," ","R","e","a","c","t">>), 10) >>,
      << localFileInfo(<<"a","p","p",".","p","y">>, <<"a","p","p",".","p","y">>,
                       CFromText(<<"f","l","a","s","k">>), 5),
         localFileInfo(<<"n","o","t","e","s">>, <<"n","o","t","e","s">>,
                       CFromText(<<"x">>), 1),
         localFileInfo(<<"b",".","p","y">>, <<"b",".","p","y">>,
                       CFromText(<<"d","j","a","n","g","o">>), 6) >>,
      << localFileInfo(<<"a",".","t","s">>, <<"a",".","t","s">>, CFromText(<<"r","e","a">>), 3),
         localFileInfo(<<"b",".","t","s">>, <<"b",".","t","s">>, CFromText(<<"c","t"," ","N","E","X","T">>), 7) >> }

(* ------------------------------------------------------------------ *)
(* State                                                               *)
(* ------------------------------------------------------------------ *)

VARIABLES
    \* the splitter applied to one combined text
    spc,            \* "off" | "input" | "parsed"
    before,         \* the text in front of the marker
    after,          \* the text behind the marker
    hasMarker,      \* whether combined is before + Marker + after
    combined,       \* the combined generation output
    splitFiles,     \* the FileInfo list given to parseSpecifications
    parsed,         \* the AnalysisResult, once spc = "parsed"
    \* one ingestion run of RepositoryAnalyzer
    ipc,            \* "off" | "idle" | "walking" | "fetching" | "done" | "failed"
    tree,           \* the source tree: its entries in listing order
    stack,          \* walkDirectory's active calls, innermost last
    givenUrl,       \* history: the repoUrl analyzeGithubRepo was called with
    request,        \* the owner and repository of the tree-listing call
    items,          \* the filtered, capped tree entries being fetched
    results,        \* the settled value of each entry's promise
    files,          \* the files array
    returned,       \* the array analyzeLocalFolder / analyzeGithubRepo returned
    ierror,         \* the message of the error the run failed with
    survivors,      \* history: the records in the order they were pushed
    raws,           \* history: <<path, text>> of every record's decoded text
    fetchCalls,     \* history: the requests given to fetch, in order
    treeResponse,   \* history: the answer to the tree-listing request
    responses,      \* history: the answer to each entry's blob request
    fsCalls,        \* history: the fs calls of the walk and how each ended
    \* one run of TechDocsGenerator.generateFromGithub / generateFromLocal
    rpc,            \* "off" | "idle" | "ingest" | the stage awaited | "done" | "failed"
    sourceType,     \* "github" | "local"
    folderReadable, \* whether fs.readdir(folderPath) succeeds on the local source
    options,        \* DocumentationOptions: sendEmail, recipientEmail
    runFiles,       \* the files the analyzer returned
    codeAnalysis,   \* const codeAnalysis
    docAnalysis,    \* const docAnalysis
    reviewedAnalysis, \* const reviewedAnalysis
    specifications, \* const specifications
    result,         \* const result of generateDocumentation
    runReturn,      \* how the promise of generateFrom... settled
    progress,       \* the percentages given to the coordinator's onProgress
    outerProgress,  \* the percentages given to the caller's onProgress, in tenths
    calls,          \* history: the stages invoked, in order
    stageInputs,    \* history: what each invoked stage was given
    enhancedAnalysis, \* history: the text generateText returned to reviewAnalysis
    raised,         \* history: the stage that raised a failure, and the failure
    deliveryEnv,    \* history: what the delivery collaborators did
    \* two /api/generate requests served through the one WebInterface
    wpc,            \* per request: "off" | "received" | the await it is at | "responded"
    reqData,        \* per request: const data, the parsed body
    progressCallback, \* WebInterface.progressCallback: 0 (undefined) or the request whose callback it holds
    onProgress,     \* per run: the onProgress argument generateFrom... was called with
    wfiles,         \* per run: the files the analyzer returned
    generateArgs,   \* history, per run: what generateDocumentation was called with
    emitted,        \* history, per run: the percentages (in tenths) it reported
    callbackLog,    \* history, per callback: the events it was invoked with
    response        \* per request: the HTTP answer

splitVars == << spc, before, after, hasMarker, combined, splitFiles, parsed >>

ingestVars == << ipc, tree, stack, givenUrl, request, items, results, files, returned,
                 ierror, survivors, raws, fetchCalls, treeResponse, responses,
                 fsCalls >>

runVars == << rpc, sourceType, folderReadable, options, runFiles, codeAnalysis, docAnalysis,
              reviewedAnalysis, specifications, result, runReturn, progress,
              outerProgress, calls, stageInputs, enhancedAnalysis, raised,
              deliveryEnv >>

webVars == << wpc, reqData, progressCallback, onProgress, wfiles, generateArgs,
              emitted, callbackLog, response >>

vars == << splitVars, ingestVars, runVars, webVars >>

NoResult == [ technicalSpec |-> << >>, functionalSpec |-> << >>,
              metadata |-> [ filesAnalyzed |-> 0, codeLanguages |-> << >>,
                             frameworks |-> << >>, architecture |-> "" ] ]

NoRequest == [ owner |-> << >>, repo |-> << >> ]

NoReview == [ codeAnalysis |-> << >>, docAnalysis |-> << >> ]

NoOptions == [ sendEmail |-> FALSE,
               recipientEmail |-> [ some |-> FALSE, val |-> << >> ] ]

NotRaised == [ stage |-> "", error |-> << >> ]

NoDelivery == [ content |-> "", token |-> "", send |-> "" ]

NoTreeResponse == [ threw |-> FALSE, ok |-> FALSE, status |-> << >>,
                    statusText |-> << >> ]

NoBlobResponse == [ threw |-> FALSE, ok |-> FALSE, encoding |-> "pending",
                    text |-> << >> ]

PendingReturn == [ status |-> "pending", value |-> NoResult, error |-> << >> ]

\* The two requests of the web server.
Requests == { 1, 2 }

NoResponse == [ status |-> 0, body |-> NoResult, error |-> << >> ]

NoGenerateArgs == [ called |-> FALSE, files |-> << >>, projectName |-> "",
                    options |-> [ sendEmail |-> FALSE, recipientEmail |-> NULL ] ]

\* The web server is not part of the behaviour.
WebOff ==
    /\ wpc = [ r \in Requests |-> "off" ]
    /\ reqData = [ r \in Requests |-> << >> ]
    /\ progressCallback = 0
    /\ onProgress = [ r \in Requests |-> 0 ]
    /\ wfiles = [ r \in Requests |-> << >> ]
    /\ generateArgs = [ r \in Requests |-> NoGenerateArgs ]
    /\ emitted = [ r \in Requests |-> << >> ]
    /\ callbackLog = [ r \in Requests |-> << >> ]
    /\ response = [ r \in Requests |-> NoResponse ]

\* The pipeline is not part of the behaviour.
RunOff ==
    /\ rpc = "off"
    /\ sourceType = ""
    /\ folderReadable = TRUE
    /\ options = NoOptions
    /\ runFiles = << >>
    /\ codeAnalysis = << >>
    /\ docAnalysis = << >>
    /\ reviewedAnalysis = NoReview
    /\ specifications = << >>
    /\ result = NoResult
    /\ runReturn = PendingReturn
    /\ progress = << >>
    /\ outerProgress = << >>
    /\ calls = << >>
    /\ stageInputs = << >>
    /\ enhancedAnalysis = << >>
    /\ raised = NotRaised
    /\ deliveryEnv = NoDelivery

\* The splitter is not part of the behaviour.
SplitOff ==
    /\ spc = "off"
    /\ before = << >>
    /\ after = << >>
    /\ hasMarker = FALSE
    /\ combined = << >>
    /\ splitFiles = << >>
    /\ parsed = NoResult

\* Ingestion is not part of the behaviour.
IngestOff ==
    /\ ipc = "off"
    /\ tree = << >>
    /\ stack = << >>
    /\ givenUrl = << >>
    /\ request = NoRequest
    /\ items = << >>
    /\ results = << >>
    /\ files = << >>
    /\ returned = << >>
    /\ ierror = << >>
    /\ survivors = << >>
    /\ raws = {}
    /\ fetchCalls = << >>
    /\ treeResponse = NoTreeResponse
    /\ responses = << >>
    /\ fsCalls = << >>

(* ------------------------------------------------------------------ *)
(* The splitter as a function of its input                             *)
(* ------------------------------------------------------------------ *)

InitSplit ==
    /\ spc = "input"
    /\ before \in PieceStrings(MaxPieces)
    /\ hasMarker \in BOOLEAN
    /\ after \in IF hasMarker THEN PieceStrings(MaxPieces) ELSE { << >> }
    /\ combined = IF hasMarker THEN before \o Marker \o after ELSE before
    /\ splitFiles \in SampleFileLists
    /\ parsed = NoResult
    /\ IngestOff
    /\ RunOff
    /\ WebOff

\* const result = this.parseSpecifications(specifications, files)
ParseSpecifications ==
    /\ spc = "input"
    /\ parsed' = parseSpecifications(combined, splitFiles)
    /\ spc' = "parsed"
    /\ UNCHANGED << before, after, hasMarker, combined, splitFiles >>
    /\ UNCHANGED << ingestVars, runVars, webVars >>

NextSplit == ParseSpecifications

SpecSplit == InitSplit /\ [][NextSplit]_vars

(* ------------------------------------------------------------------ *)
(* RepositoryAnalyzer: local ingestion                                 *)
(* ------------------------------------------------------------------ *)

InitIngest ==
    /\ ipc = "idle"
    /\ tree \in SourceTrees
    /\ stack = << >>
    /\ givenUrl = << >>
    /\ request = NoRequest
    /\ items = << >>
    /\ results = << >>
    /\ files = << >>
    /\ returned = << >>
    /\ ierror = << >>
    /\ survivors = << >>
    /\ raws = {}
    /\ fetchCalls = << >>
    /\ treeResponse = NoTreeResponse
    /\ responses = << >>
    /\ fsCalls = << >>
    /\ SplitOff
    /\ RunOff
    /\ WebOff

\* One call of fs.readdir, fs.stat or fs.readFile and whether it threw.
FsCall(op, p, threw) == [ op |-> op, path |-> p, threw |-> threw ]

\* analyzeLocalFolder is called: const files = []; walkDirectory(folderPath,
\* files, folderPath) reads the root directory.
LocalStart ==
    /\ ipc = "idle"
    /\ \E readdirThrows \in BOOLEAN :
          /\ stack' = walkDirectoryEnter(<< >>, 0, readdirThrows)
          /\ fsCalls' = << FsCall("readdir", << >>, readdirThrows) >>
    /\ ipc' = "walking"
    /\ UNCHANGED << tree, givenUrl, request, items, results, files, returned, ierror,
                    survivors, raws, fetchCalls, treeResponse, responses >>
    /\ UNCHANGED << splitVars, runVars, webVars >>

\* One iteration of walkDirectory's for loop in the innermost active call,
\* fs.readFile ending in one of the outcomes given.
WalkItemWith(reads) ==
    /\ ipc = "walking"
    /\ stack # << >>
    /\ \E top \in { stack[Len(stack)] } :
       \E listing \in { readdir(tree, top.dir) } :
       LET outer == SubSeq(stack, 1, Len(stack) - 1)
       IN  /\ top.idx <= Len(listing)
           /\ \E e \in { listing[top.idx] } :
              LET item == basename(e.path)
                  relativePath == e.path
                  advanced == Append(outer, [top EXCEPT !.idx = top.idx + 1])
              IN  IF shouldSkipPath(relativePath)
                  THEN \* continue
                       /\ stack' = advanced
                       /\ UNCHANGED << files, survivors, raws, fsCalls >>
                  ELSE \E statThrows \in BOOLEAN, readdirThrows \in BOOLEAN,
                          read \in reads :
                       LET statCall == FsCall("stat", e.path, statThrows)
                       IN
                       IF statThrows
                       THEN \* caught by this call's catch: the call returns
                            /\ stack' = outer
                            /\ fsCalls' = Append(fsCalls, statCall)
                            /\ UNCHANGED << files, survivors, raws >>
                       ELSE IF e.type = "tree"
                       THEN /\ stack' = advanced \o
                                 walkDirectoryEnter(e.path, top.depth + 1, readdirThrows)
                            /\ fsCalls' =
                                 IF walkDirectoryEnter(e.path, top.depth + 1, FALSE) = << >>
                                 THEN \* returned before fs.readdir
                                      Append(fsCalls, statCall)
                                 ELSE fsCalls \o << statCall,
                                        FsCall("readdir", e.path, readdirThrows) >>
                            /\ UNCHANGED << files, survivors, raws >>
                       ELSE IF shouldIncludeFile(item, e.size)
                       THEN LET content == readFileContent(read)
                                file == localFileInfo(relativePath, item,
                                                      content.val, e.size)
                            IN  /\ stack' = advanced
                                /\ fsCalls' = fsCalls \o << statCall,
                                                FsCall("readFile", e.path, read.err) >>
                                /\ IF content.some
                                   THEN /\ files' = Append(files, file)
                                        /\ survivors' = Append(survivors, file)
                                        /\ raws' = raws \cup { << relativePath, read.data >> }
                                   ELSE UNCHANGED << files, survivors, raws >>
                       ELSE /\ stack' = advanced
                            /\ fsCalls' = Append(fsCalls, statCall)
                            /\ UNCHANGED << files, survivors, raws >>
    /\ UNCHANGED << ipc, tree, givenUrl, request, items, results, returned, ierror,
                    fetchCalls, treeResponse, responses >>
    /\ UNCHANGED << splitVars, runVars, webVars >>

\* One iteration of the loop, whatever fs.readFile does.
WalkItem == WalkItemWith(ReadOutcomes)

\* The for loop of the innermost active call is over: the call returns.
WalkReturn ==
    /\ ipc = "walking"
    /\ stack # << >>
    /\ stack[Len(stack)].idx > Len(readdir(tree, stack[Len(stack)].dir))
    /\ stack' = SubSeq(stack, 1, Len(stack) - 1)
    /\ UNCHANGED << ipc, tree, givenUrl, request, items, results, files, returned, ierror,
                    survivors, raws, fetchCalls, treeResponse, responses,
                    fsCalls >>
    /\ UNCHANGED << splitVars, runVars, webVars >>

\* walkDirectory has returned: return files.sort(...), which sorts in place.
LocalFinish ==
    /\ ipc = "walking"
    /\ stack = << >>
    /\ files' = sortFiles(files)
    /\ returned' = sortFiles(files)
    /\ ipc' = "done"
    /\ UNCHANGED << tree, stack, givenUrl, request, items, results, ierror, survivors, raws,
                    fetchCalls, treeResponse, responses, fsCalls >>
    /\ UNCHANGED << splitVars, runVars, webVars >>

(* ------------------------------------------------------------------ *)
(* RepositoryAnalyzer: remote ingestion                                *)
(* ------------------------------------------------------------------ *)

Pending == [ state |-> "pending", file |-> << >> ]

Dropped == [ state |-> "null", file |-> << >> ]

Fetched(file) == [ state |-> "file", file |-> << file >> ]

\* One call of fetch: the tree listing of the repository, or the blob of
\* the entry at a path.
FetchCall(kind, p) == [ kind |-> kind, path |-> p ]

\* .map(async (item) => ...): every callback runs up to its fetch call
\* before map returns, so the blob requests go out in entry order.
blobCalls(entries) ==
    [ i \in 1..Len(entries) |-> FetchCall("blob", entries[i].path) ]

\* analyzeGithubRepo is called: the URL is matched, the tree listing is
\* requested and answered, and the blob requests of the filtered entries
\* are issued; or the run fails with the message the catch block produces.
GithubStartWith(urls) ==
    /\ ipc = "idle"
    /\ \E url \in urls, resp \in TreeResponses :
          LET match == matchGithubUrl(url)
              kept == filterTree(tree)
              treeCall == FetchCall("tree", << >>)
          IN  /\ givenUrl' = url
              /\ IF ~match.ok
                 THEN /\ ierror' = analyzeGithubRepoCatch(MsgInvalidUrl)
                      /\ ipc' = "failed"
                      /\ UNCHANGED << request, items, results, fetchCalls,
                                      treeResponse, responses >>
                 ELSE /\ request' = [ owner |-> match.owner,
                                      repo |-> repoNameOf(match.repo) ]
                      /\ treeResponse' = resp
                      /\ IF resp.threw
                         THEN /\ ierror' = analyzeGithubRepoCatch(resp.statusText)
                              /\ ipc' = "failed"
                              /\ fetchCalls' = << treeCall >>
                              /\ UNCHANGED << items, results, responses >>
                         ELSE IF ~resp.ok
                         THEN /\ ierror' = analyzeGithubRepoCatch(apiErrorMessage(resp))
                              /\ ipc' = "failed"
                              /\ fetchCalls' = << treeCall >>
                              /\ UNCHANGED << items, results, responses >>
                         ELSE /\ items' = kept
                              /\ results' = [ i \in 1..Len(kept) |-> Pending ]
                              /\ responses' = [ i \in 1..Len(kept) |-> NoBlobResponse ]
                              /\ fetchCalls' = << treeCall >> \o blobCalls(kept)
                              /\ ipc' = "fetching"
                              /\ UNCHANGED ierror
    /\ UNCHANGED << tree, stack, files, returned, survivors, raws, fsCalls >>
    /\ UNCHANGED << splitVars, runVars, webVars >>

\* analyzeGithubRepo is called with one of the sample URLs.
GithubStart == GithubStartWith(RepoUrls)

\* The blob request of entry i settles with an answer of the set given: the
\* arrow function given to map returns a FileInfo or null.
GithubFetchSettleWith(i, answers) ==
    /\ ipc = "fetching"
    /\ results[i] = Pending
    /\ \E resp \in answers :
          LET content == fetchGithubFileContent(resp)
          IN  /\ responses' = [ responses EXCEPT ![i] = resp ]
              /\ IF content.some
                 THEN /\ results' = [ results EXCEPT
                                        ![i] = Fetched(githubFileInfo(items[i], content.val)) ]
                      /\ raws' = raws \cup { << items[i].path, resp.text >> }
                 ELSE /\ results' = [ results EXCEPT ![i] = Dropped ]
                      /\ UNCHANGED raws
    /\ UNCHANGED << ipc, tree, stack, givenUrl, request, items, files, returned, ierror,
                    survivors, fetchCalls, treeResponse, fsCalls >>
    /\ UNCHANGED << splitVars, runVars, webVars >>

\* The blob request of entry i settles, whatever the other requests did.
GithubFetchSettle(i) == GithubFetchSettleWith(i, BlobResponses)

\* results.filter(file => file !== null)
nonNull(rs) ==
    LET kept == SelectSeq(rs, LAMBDA r : r.state = "file")
    IN  [ i \in 1..Len(kept) |-> kept[i].file[1] ]

\* A combinator that resumes with the first promise fulfilled.
promiseAllResolved_first(rs) == \E i \in 1..Len(rs) : rs[i] # Pending

\* await Promise.all(filePromises) resumes once every promise of the batch
\* is fulfilled; none of them rejects.
promiseAllResolved(rs) == \A i \in 1..Len(rs) : rs[i] # Pending

\* Promise.all has resolved: push the non-null results, sort, return.
GithubFinish ==
    /\ ipc = "fetching"
    /\ promiseAllResolved(results)
    /\ files' = sortFiles(files \o nonNull(results))
    /\ survivors' = survivors \o nonNull(results)
    /\ returned' = sortFiles(files \o nonNull(results))
    /\ ipc' = "done"
    /\ UNCHANGED << tree, stack, givenUrl, request, items, results, ierror, raws,
                    fetchCalls, treeResponse, responses, fsCalls >>
    /\ UNCHANGED << splitVars, runVars, webVars >>

NextIngest ==
    \/ LocalStart
    \/ WalkItem
    \/ WalkReturn
    \/ LocalFinish
    \/ GithubStart
    \/ \E i \in 1..Len(items) : GithubFetchSettle(i)
    \/ GithubFinish

SpecIngest == InitIngest /\ [][NextIngest]_vars

(* ------------------------------------------------------------------ *)
(* RepositoryAnalyzer: remote ingestion of a large listing             *)
(* ------------------------------------------------------------------ *)

\* The number of entries of the large listing, and the number of its first
\* blob requests that may fail.
MaxListing == 115

MaxVaried == 3

DigitChars == << "0", "1", "2", "3", "4", "5", "6", "7", "8", "9" >>

\* String(n) for a natural number.
RECURSIVE Digits(_)
Digits(n) ==
    IF n < 10
    THEN << DigitChars[n + 1] >>
    ELSE Digits(n \div 10) \o << DigitChars[(n % 10) + 1] >>

\* A listing of MaxListing blobs f1.ts, f2.ts, ... in which every tenth
\* entry is an image, which the filter refuses.
LargeTree ==
    [ i \in 1..MaxListing |->
        Entry(<< "f" >> \o Digits(i) \o
                 (IF i % 10 = 0 THEN << ".", "p", "n", "g" >> ELSE << ".", "t", "s" >>),
              "blob", 10 + i) ]

\* The answers to the blob request of entry i of the large batch.
LargeBatchAnswers(i) ==
    { [ threw |-> FALSE, ok |-> TRUE, encoding |-> "base64",
        text |-> << Run("a", 2) >> ] }
      \cup (IF i <= MaxVaried
            THEN { [ threw |-> FALSE, ok |-> FALSE, encoding |-> "", text |-> << >> ] }
            ELSE { })

InitLarge ==
    /\ ipc = "idle"
    /\ tree = LargeTree
    /\ stack = << >>
    /\ givenUrl = << >>
    /\ request = NoRequest
    /\ items = << >>
    /\ results = << >>
    /\ files = << >>
    /\ returned = << >>
    /\ ierror = << >>
    /\ survivors = << >>
    /\ raws = {}
    /\ fetchCalls = << >>
    /\ treeResponse = NoTreeResponse
    /\ responses = << >>
    /\ fsCalls = << >>
    /\ SplitOff
    /\ RunOff
    /\ WebOff

\* The blob requests of the large batch settle in entry order: a settling
\* request writes its own result only, so every other order ends in the
\* same results.
GithubFetchSettleInOrder ==
    \E i \in 1..Len(items) :
        /\ \A j \in 1..(i - 1) : results[j] # Pending
        /\ GithubFetchSettleWith(i, LargeBatchAnswers(i))

NextLarge ==
    \/ GithubStart
    \/ GithubFetchSettleInOrder
    \/ GithubFinish

SpecLarge == InitLarge /\ [][NextLarge]_vars

(* ------------------------------------------------------------------ *)
(* RepositoryAnalyzer: ingestion of one file at a given path           *)
(* ------------------------------------------------------------------ *)

\* Repository-relative paths of one file: every name of importantFiles at
\* the root; a hidden file inside a directory; a file inside a hidden, a
\* deny-listed and an ordinary directory; a file whose name contains a
\* deny-list fragment; a file of no accepted kind; names for each rule of
\* getFileImportanceScore, two of them containing 'main.' and 'app.'
\* behind other letters.
SamplePaths ==
    { <<"r","e","a","d","m","e">>,
      <<"l","i","c","e","n","s","e">>,
      <<"c","h","a","n","g","e","l","o","g">>,
      <<"c","o","n","t","r","i","b","u","t","i","n","g">>,
      <<"d","o","c","k","e","r","f","i","l","e">>,
      <<"m","a","k","e","f","i","l","e">>,
      <<"r","a","k","e","f","i","l","e">>,
      <<"g","e","m","f","i","l","e">>,
      <<"p","a","c","k","a","g","e",".","j","s","o","n">>,
      <<"c","o","m","p","o","s","e","r",".","j","s","o","n">>,
      <<"r","e","q","u","i","r","e","m","e","n","t","s",".","t","x","t">>,
      <<"s","e","t","u","p",".","p","y">>,
      <<"p","o","m",".","x","m","l">>,
      <<"b","u","i","l","d",".","g","r","a","d","l","e">>,
      <<"s","r","c","/",".","e","s","l","i","n","t","r","c",".","j","s","o","n">>,
      <<".","g","i","t","h","u","b","/","c","i",".","y","m","l">>,
      <<"d","i","s","t","/","a",".","j","s">>,
      <<"l","i","b","/","r","e","b","u","i","l","d",".","t","s">>,
      <<"a","/","b","/","c",".","t","s">>,
      <<"l","o","g","o",".","p","n","g">>,
      <<"d","o","m","a","i","n",".","t","s">>,
      <<"w","e","b","a","p","p",".","j","s">>,
      <<"m","a","i","n",".","t","s">>,
      <<"I","n","d","e","x",".","H","T","M","L">>,
      <<"a","p","p",".","p","y">>,
      <<"s","e","r","v","e","r",".","g","o">>,
      <<"g","u","i","d","e",".","m","d">>,
      <<"c","o","n","f","i","g",".","y","m","l">>,
      <<"i","n","s","t","a","l","l",".","s","h">>,
      <<"x",".","r","s">>,
      <<"n","o","t","e","s",".","t","x","t">> }

\* Reported sizes: small, exactly 1024 * 1024, one byte more.
SampleSizes == { 10, 1024 * 1024, 1024 * 1024 + 1 }

\* The source tree that holds one file at path p: the directories above it,
\* outermost first, then the file.
PathTree(p, size) ==
    LET slashes == { i \in 1..Len(p) : p[i] = "/" }
        dirs == SelectSeq([ i \in 1..Len(p) |->
                               IF i \in slashes THEN SubSeq(p, 1, i - 1) ELSE << >> ],
                          LAMBDA d : d # << >>)
    IN  [ i \in 1..Len(dirs) |-> Entry(dirs[i], "tree", 0) ]
           \o << Entry(p, "blob", size) >>

\* Further repository URLs: a repository name that contains '.git' in front
\* of other characters, with and without the '.git' suffix, and a URL with
\* no repository segment.
MoreRepoUrls ==
    { <<"g","i","t","h","u","b",".","c","o","m","/","o","/","a",".","g","i","t","h","u","b",".","i","o">>,
      <<"g","i","t","h","u","b",".","c","o","m","/","o","/","a",".","g","i","t","h","u","b",".","i","o",".","g","i","t">>,
      <<"g","i","t","h","u","b",".","c","o","m","/","o">> }

InitPaths ==
    /\ ipc = "idle"
    /\ tree \in { PathTree(p, size) : p \in SamplePaths, size \in SampleSizes }
    /\ stack = << >>
    /\ givenUrl = << >>
    /\ request = NoRequest
    /\ items = << >>
    /\ results = << >>
    /\ files = << >>
    /\ returned = << >>
    /\ ierror = << >>
    /\ survivors = << >>
    /\ raws = {}
    /\ fetchCalls = << >>
    /\ treeResponse = NoTreeResponse
    /\ responses = << >>
    /\ fsCalls = << >>
    /\ SplitOff
    /\ RunOff
    /\ WebOff

NextPaths ==
    \/ LocalStart
    \/ WalkItem
    \/ WalkReturn
    \/ LocalFinish
    \/ GithubStartWith(RepoUrls \cup MoreRepoUrls)
    \/ \E i \in 1..Len(items) : GithubFetchSettle(i)
    \/ GithubFinish

SpecPaths == InitPaths /\ [][NextPaths]_vars

(* ------------------------------------------------------------------ *)
(* RepositoryAnalyzer: local ingestion of deeply nested trees          *)
(* ------------------------------------------------------------------ *)

\* The number of directory levels the deep trees are written out to.
MaxNesting == 12

\* The path of k segments seg/seg/.../seg.
RECURSIVE Nest(_, _)
Nest(seg, k) ==
    IF k <= 1 THEN seg ELSE Nest(seg, k - 1) \o << "/" >> \o seg

\* The path of a file of the given name inside the directory Nest(seg, k).
Inside(seg, k, name) == Nest(seg, k) \o << "/" >> \o name

\* A directory ring that holds a symbolic link self to itself, which
\* fs.stat follows: the walker sees ring, ring/self, ring/self/self, ... as
\* directories.  The listing is written out to MaxNesting levels; z.ts is
\* listed behind ring in the root.
RingTree ==
    [ k \in 1..MaxNesting |->
        Entry(IF k = 1 THEN <<"r","i","n","g">>
              ELSE <<"r","i","n","g","/">> \o Nest(<<"s","e","l","f">>, k - 1),
              "tree", 0) ]
      \o << Entry(<<"z",".","t","s">>, "blob", 10) >>

\* Directories n, n/n, ... nested MaxNesting levels deep, with the file
\* k.ts inside the directory 10 levels below the root, u.ts inside the one
\* 11 levels below it, and z.ts listed behind n in the root.
DeepTree ==
    [ k \in 1..MaxNesting |-> Entry(Nest(<< "n" >>, k), "tree", 0) ]
      \o << Entry(Inside(<< "n" >>, 10, <<"k",".","t","s">>), "blob", 10),
            Entry(Inside(<< "n" >>, 11, <<"u",".","t","s">>), "blob", 10),
            Entry(<<"z",".","t","s">>, "blob", 10) >>

\* Outcomes of fs.readFile in the deep trees: an error or a short text.
DeepReadOutcomes ==
    { [ err |-> TRUE, data |-> << >> ],
      [ err |-> FALSE, data |-> << Run("a", 2) >> ] }

InitDeep ==
    /\ ipc = "idle"
    /\ tree \in { RingTree, DeepTree }
    /\ stack = << >>
    /\ givenUrl = << >>
    /\ request = NoRequest
    /\ items = << >>
    /\ results = << >>
    /\ files = << >>
    /\ returned = << >>
    /\ ierror = << >>
    /\ survivors = << >>
    /\ raws = {}
    /\ fetchCalls = << >>
    /\ treeResponse = NoTreeResponse
    /\ responses = << >>
    /\ fsCalls = << >>
    /\ SplitOff
    /\ RunOff
    /\ WebOff

NextDeep ==
    \/ LocalStart
    \/ WalkItemWith(DeepReadOutcomes)
    \/ WalkReturn
    \/ LocalFinish

\* walkDirectory has returned to analyzeLocalFolder, which sorts and
\* returns: the step LocalFinish takes from there.
ReturnAfterWalk == ipc = "walking" /\ stack = << >> /\ ipc' = "done"

\* The for loop of walkDirectory has an item left to process.
LoopBodyDue ==
    /\ ipc = "walking"
    /\ stack # << >>
    /\ stack[Len(stack)].idx <= Len(readdir(tree, stack[Len(stack)].dir))

\* Every fs promise settles and the code awaiting it resumes; synchronous
\* code runs on: a step of the walk that can be taken is taken.  The last
\* conjunct is weak fairness of the loop body, with its enabling condition
\* written out as LoopBodyDue.
SpecDeep ==
    /\ InitDeep
    /\ [][NextDeep]_vars
    /\ WF_vars(LocalStart)
    /\ WF_vars(WalkReturn)
    /\ WF_ipc(ReturnAfterWalk)
    /\ ([]<>~LoopBodyDue \/ []<><<WalkItemWith(DeepReadOutcomes)>>_vars)

(* ------------------------------------------------------------------ *)
(* TechDocsGenerator and CoordinatorAgent.generateDocumentation        *)
(* ------------------------------------------------------------------ *)

\* Outcomes of one call of the text-generation capability (BaseAgent.analyze
\* or AIClient.generateText): it throws, or it returns a text.
ModelError == <<"m","o","d","e","l"," ","e","r","r","o","r">>

Threw(msg) == [ threw |-> TRUE, undefined |-> FALSE, text |-> msg ]

Text(t) == [ threw |-> FALSE, undefined |-> FALSE, text |-> t ]

AnalysisOutcomes ==
    { Threw(ModelError), Text(<< "c" >>), Text(<< "d" >>) }

\* Answers of the review call: none; one without the label; one of spaces
\* only; one with both labels.
ReviewOutcomes ==
    { Threw(ModelError),
      Text(<< "z" >>),
      Text(<< " " >>),
      Text(CodeLabel \o << " ", "x", " " >> \o DocLabel \o << " ", "y" >>) }

\* The generation stage may also hand back a value that is not a string, on
\* which parseSpecifications throws a TypeError.
SplitTypeError ==
    <<"s","p","e","c","i","f","i","c","a","t","i","o","n","s",".","s","p","l",
      "i","t"," ","i","s"," ","n","o","t"," ","a"," ","f","u","n","c","t","i",
      "o","n">>

GenerationOutcomes ==
    { Threw(ModelError),
      [ threw |-> FALSE, undefined |-> TRUE, text |-> << >> ],
      Text(<< >>),
      Text(<< "T" >>),
      Text(<< " " >>),
      Text(<< "T", "\n" >> \o Marker \o << "\n", "F" >>) }

\* The message of the error a failing analyzer call of generateFromGithub
\* throws; a succeeding call returns one of SampleFileLists.
IngestError == <<"i","n","g","e","s","t"," ","e","r","r","o","r">>

DeliveryEnvs ==
    [ content : { "ok", "fail" }, token : { "ok", "fail" }, send : { "ok", "fail" } ]

\* The form fields of handleFormSubmission that become options: each is
\* optional, [some |-> FALSE] standing for undefined.
FormDatas ==
    [ sendEmail : { [ some |-> FALSE, val |-> FALSE ],
                    [ some |-> TRUE, val |-> FALSE ],
                    [ some |-> TRUE, val |-> TRUE ] },
      recipientEmail : { NULL, Some(<< >>), Some(<<"a","@","b">>) } ]

\* const options = { sendEmail: formData.sendEmail || false,
\*                   recipientEmail: formData.recipientEmail }
documentationOptions(formData) ==
    [ sendEmail |-> formData.sendEmail.some /\ formData.sendEmail.val,
      recipientEmail |-> formData.recipientEmail ]

OptionSets == { documentationOptions(formData) : formData \in FormDatas }

\* The wrapper without the offset of 10: progress * 0.9.
forwardProgress_noOffset(p) == 9 * p

\* The value the wrapper given to the coordinator passes on for the
\* coordinator's percentage: 10 + (progress * 0.9), here in tenths of a
\* percent (the doubles are exact for the waypoints the coordinator emits).
forwardProgress(p) == 100 + 9 * p

\* The catch block of generateDocumentation: console.error; throw error.
coordinatorCatch(error) == error

\* The catch block of generateFromGithub / generateFromLocal: throw error.
generatorCatch(error) == error

\* options.sendEmail without the test of options.recipientEmail.
deliveryRequested_anyRecipient(opts) == opts.sendEmail

\* options.sendEmail && options.recipientEmail: undefined and '' are falsy.
deliveryRequested(opts) ==
    /\ opts.sendEmail
    /\ opts.recipientEmail.some
    /\ opts.recipientEmail.val # << >>

\* The object given to specGenerator.analyze with the two analyses swapped.
specGeneratorInput_swapped(reviewed) ==
    [ codeAnalysis |-> reviewed.docAnalysis,
      docAnalysis |-> reviewed.codeAnalysis ]

\* The object given to specGenerator.analyze: { codeAnalysis:
\* reviewedAnalysis.codeAnalysis, docAnalysis: reviewedAnalysis.docAnalysis,
\* projectInfo }, the analyses of it.
specGeneratorInput(reviewed) ==
    [ codeAnalysis |-> reviewed.codeAnalysis,
      docAnalysis |-> reviewed.docAnalysis ]

\* The arguments of emailAgent.sendDocumentation taken from the run.
sendDocumentationInput(opts, res) ==
    [ recipientEmail |-> opts.recipientEmail.val,
      technicalSpec |-> res.technicalSpec,
      functionalSpec |-> res.functionalSpec,
      metadata |-> res.metadata ]

Rejected(error) == [ status |-> "rejected", value |-> NoResult, error |-> error ]

Resolved(value) == [ status |-> "resolved", value |-> value, error |-> << >> ]

InitRun ==
    /\ rpc = "idle"
    /\ sourceType \in { "github", "local" }
    /\ folderReadable \in IF sourceType = "local" THEN BOOLEAN ELSE { TRUE }
    /\ options \in OptionSets
    /\ runFiles = << >>
    /\ codeAnalysis = << >>
    /\ docAnalysis = << >>
    /\ reviewedAnalysis = NoReview
    /\ specifications = << >>
    /\ result = NoResult
    /\ runReturn = PendingReturn
    /\ progress = << >>
    /\ outerProgress = << >>
    /\ calls = << >>
    /\ stageInputs = << >>
    /\ enhancedAnalysis = << >>
    /\ raised = NotRaised
    /\ deliveryEnv = NoDelivery
    /\ SplitOff
    /\ IngestOff
    /\ WebOff

\* A catch block that logs the error and does not rethrow it: the promise
\* resolves although the stage failed.
StageFails_swallowed(stage, error) ==
    /\ rpc' = "done"
    /\ raised' = [ stage |-> stage, error |-> error ]
    /\ runReturn' = Resolved(result)

\* A stage raised error: both catch blocks rethrow it and the promise of
\* generateFrom... rejects.
StageFails(stage, error) ==
    /\ rpc' = "failed"
    /\ raised' = [ stage |-> stage, error |-> error ]
    /\ runReturn' = Rejected(generatorCatch(coordinatorCatch(error)))

\* The coordinator reports percentage p: its callback gets p, the caller's
\* callback gets the forwarded value.
Emit(p) ==
    /\ progress' = Append(progress, p)
    /\ outerProgress' = Append(outerProgress, forwardProgress(p))

\* generateFromGithub / generateFromLocal is called: onProgress(..., 5) and
\* the analyzer call is awaited.
GenerateStart ==
    /\ rpc = "idle"
    /\ outerProgress' = Append(outerProgress, 50)
    /\ rpc' = "ingest"
    /\ UNCHANGED << sourceType, folderReadable, options, runFiles, codeAnalysis, docAnalysis,
                    reviewedAnalysis, specifications, result, runReturn,
                    progress, calls, stageInputs, enhancedAnalysis, raised,
                    deliveryEnv >>
    /\ UNCHANGED << splitVars, ingestVars, webVars >>

\* What the awaited analyzer call settles with.  analyzeGithubRepo rejects
\* or returns a file list.  analyzeLocalFolder has no path on which it
\* rejects: walkDirectory catches every error of its fs calls, so when
\* fs.readdir(folderPath) throws on the root the files array stays empty and
\* the sorted empty array is returned.
analyzerOutcomes(type, readable) ==
    IF type = "github"
    THEN { [ threw |-> TRUE, files |-> << >> ] }
            \cup { [ threw |-> FALSE, files |-> fl ] : fl \in SampleFileLists }
    ELSE IF walkDirectoryEnter(<< >>, 0, ~readable) = << >>
         THEN { [ threw |-> FALSE, files |-> sortFiles(<< >>) ] }
         ELSE { [ threw |-> FALSE, files |-> fl ] : fl \in SampleFileLists }

\* The analyzer call settles.  On success: onProgress(..., 10), then
\* generateDocumentation starts: onProgress(..., 15) and the code analysis
\* is awaited.
IngestSettle ==
    /\ rpc = "ingest"
    /\ \E out \in analyzerOutcomes(sourceType, folderReadable) :
          IF out.threw
          THEN /\ rpc' = "failed"
               /\ runReturn' = Rejected(generatorCatch(IngestError))
               /\ UNCHANGED << runFiles, progress, outerProgress, calls,
                               stageInputs >>
          ELSE /\ runFiles' = out.files
               /\ progress' = Append(progress, 15)
               /\ outerProgress' = outerProgress \o << 100, forwardProgress(15) >>
               /\ calls' = Append(calls, "CodeAnalysis")
               /\ stageInputs' = Append(stageInputs, out.files)
               /\ rpc' = "codeAnalysis"
               /\ UNCHANGED runReturn
    /\ UNCHANGED << sourceType, folderReadable, options, codeAnalysis, docAnalysis,
                    reviewedAnalysis, specifications, result, raised, deliveryEnv,
                    enhancedAnalysis >>
    /\ UNCHANGED << splitVars, ingestVars, webVars >>

\* await this.codeAnalyzer.analyze(files) settles; stage 2 starts.
CodeAnalysisSettle ==
    /\ rpc = "codeAnalysis"
    /\ \E out \in AnalysisOutcomes :
          IF out.threw
          THEN /\ StageFails("CodeAnalysis", out.text)
               /\ UNCHANGED << codeAnalysis, progress, outerProgress, calls,
                               stageInputs >>
          ELSE /\ codeAnalysis' = out.text
               /\ Emit(30)
               /\ calls' = Append(calls, "DocAnalysis")
               /\ stageInputs' = Append(stageInputs, runFiles)
               /\ rpc' = "docAnalysis"
               /\ UNCHANGED << raised, runReturn >>
    /\ UNCHANGED << sourceType, folderReadable, options, runFiles, docAnalysis, reviewedAnalysis,
                    specifications, result, deliveryEnv, enhancedAnalysis >>
    /\ UNCHANGED << splitVars, ingestVars, webVars >>

\* await this.docAnalyzer.analyze(files) settles; stage 3 starts.
DocAnalysisSettle ==
    /\ rpc = "docAnalysis"
    /\ \E out \in AnalysisOutcomes :
          IF out.threw
          THEN /\ StageFails("DocAnalysis", out.text)
               /\ UNCHANGED << docAnalysis, progress, outerProgress, calls,
                               stageInputs >>
          ELSE /\ docAnalysis' = out.text
               /\ Emit(50)
               /\ calls' = Append(calls, "Review")
               /\ stageInputs' = Append(stageInputs, << codeAnalysis, out.text >>)
               /\ rpc' = "review"
               /\ UNCHANGED << raised, runReturn >>
    /\ UNCHANGED << sourceType, folderReadable, options, runFiles, codeAnalysis, reviewedAnalysis,
                    specifications, result, deliveryEnv, enhancedAnalysis >>
    /\ UNCHANGED << splitVars, ingestVars, webVars >>

\* await this.reviewAnalysis(codeAnalysis, docAnalysis) settles; stage 4
\* starts.
ReviewSettle ==
    /\ rpc = "review"
    /\ \E out \in ReviewOutcomes :
          IF out.threw
          THEN /\ StageFails("Review", out.text)
               /\ UNCHANGED << reviewedAnalysis, progress, outerProgress, calls,
                               stageInputs, enhancedAnalysis >>
          ELSE /\ enhancedAnalysis' = out.text
               /\ reviewedAnalysis' = reviewAnalysis(codeAnalysis, docAnalysis, out.text)
               /\ Emit(70)
               /\ calls' = Append(calls, "Generation")
               /\ stageInputs' = Append(stageInputs,
                     specGeneratorInput(reviewAnalysis(codeAnalysis, docAnalysis,
                                                       out.text)))
               /\ rpc' = "generation"
               /\ UNCHANGED << raised, runReturn >>
    /\ UNCHANGED << sourceType, folderReadable, options, runFiles, codeAnalysis, docAnalysis,
                    specifications, result, deliveryEnv >>
    /\ UNCHANGED << splitVars, ingestVars, webVars >>

\* await this.specGenerator.analyze(...) settles; stage 5 (the split) runs
\* synchronously; then either the delivery is awaited or the run completes.
GenerationSettle ==
    /\ rpc = "generation"
    /\ \E out \in GenerationOutcomes :
          IF out.threw
          THEN /\ StageFails("Generation", out.text)
               /\ UNCHANGED << specifications, result, progress, outerProgress, calls,
                               stageInputs >>
          ELSE IF out.undefined
          THEN /\ StageFails("Split", SplitTypeError)
               /\ progress' = Append(progress, 85)
               /\ outerProgress' = Append(outerProgress, forwardProgress(85))
               /\ calls' = Append(calls, "Split")
               /\ stageInputs' = Append(stageInputs,
                                        [ specifications |-> out, files |-> runFiles ])
               /\ UNCHANGED << specifications, result >>
          ELSE /\ specifications' = out.text
               /\ result' = parseSpecifications(out.text, runFiles)
               /\ UNCHANGED raised
               /\ IF deliveryRequested(options)
                  THEN /\ progress' = progress \o << 85, 95 >>
                       /\ outerProgress' = outerProgress \o
                              << forwardProgress(85), forwardProgress(95) >>
                       /\ calls' = calls \o << "Split", "Delivery" >>
                       /\ stageInputs' = stageInputs \o
                              << [ specifications |-> out, files |-> runFiles ],
                                 sendDocumentationInput(options,
                                     parseSpecifications(out.text, runFiles)) >>
                       /\ rpc' = "delivery"
                       /\ UNCHANGED runReturn
                  ELSE /\ progress' = progress \o << 85, 100 >>
                       /\ outerProgress' = outerProgress \o
                              << forwardProgress(85), forwardProgress(100) >>
                       /\ calls' = Append(calls, "Split")
                       /\ stageInputs' = Append(stageInputs,
                              [ specifications |-> out, files |-> runFiles ])
                       /\ rpc' = "done"
                       /\ runReturn' = Resolved(parseSpecifications(out.text, runFiles))
    /\ UNCHANGED << sourceType, folderReadable, options, runFiles, codeAnalysis, docAnalysis,
                    reviewedAnalysis, deliveryEnv, enhancedAnalysis >>
    /\ UNCHANGED << splitVars, ingestVars, webVars >>

\* await this.emailAgent.sendDocumentation(...) settles; its value is not
\* used.  onProgress(..., 100); return result.
DeliverySettle ==
    /\ rpc = "delivery"
    /\ \E env \in DeliveryEnvs :
          /\ deliveryEnv' = env
          /\ IF sendDocumentation(env).threw
             THEN /\ StageFails("Delivery", ModelError)
                  /\ UNCHANGED << progress, outerProgress >>
             ELSE /\ Emit(100)
                  /\ rpc' = "done"
                  /\ runReturn' = Resolved(result)
                  /\ UNCHANGED raised
    /\ UNCHANGED << sourceType, folderReadable, options, runFiles, codeAnalysis, docAnalysis,
                    reviewedAnalysis, specifications, result, calls, stageInputs,
                    enhancedAnalysis >>
    /\ UNCHANGED << splitVars, ingestVars, webVars >>

NextRun ==
    \/ GenerateStart
    \/ IngestSettle
    \/ CodeAnalysisSettle
    \/ DocAnalysisSettle
    \/ ReviewSettle
    \/ GenerationSettle
    \/ DeliverySettle

SpecRun == InitRun /\ [][NextRun]_vars

(* ------------------------------------------------------------------ *)
(* The web server: two /api/generate requests on one WebInterface      *)
(* ------------------------------------------------------------------ *)

MsgInvalidForm == <<"I","n","v","a","l","i","d"," ","f","o","r","m"," ","d","a","t","a">>

\* The bodies of the requests: a GitHub source with delivery by e-mail, a
\* local source without delivery, and a body without the locator of its
\* source type.
WebForms ==
    { [ sourceType |-> "github", locator |-> TRUE, projectName |-> "p",
        sendEmail |-> Some(TRUE), recipientEmail |-> Some(<<"a","@","b">>) ],
      [ sourceType |-> "local", locator |-> TRUE, projectName |-> "q",
        sendEmail |-> NULL, recipientEmail |-> NULL ],
      [ sourceType |-> "local", locator |-> FALSE, projectName |-> "x",
        sendEmail |-> NULL, recipientEmail |-> NULL ] }

\* Outcomes of an awaited stage of which only success or failure matters.
StageThrows == BOOLEAN

\* The text the specification generator returns.
WebSpecText == << "T" >>

InitWeb ==
    /\ wpc = [ r \in Requests |-> "received" ]
    /\ reqData \in [ Requests -> WebForms ]
    /\ progressCallback = 0
    /\ onProgress = [ r \in Requests |-> 0 ]
    /\ wfiles = [ r \in Requests |-> << >> ]
    /\ generateArgs = [ r \in Requests |-> NoGenerateArgs ]
    /\ emitted = [ r \in Requests |-> << >> ]
    /\ callbackLog = [ r \in Requests |-> << >> ]
    /\ response = [ r \in Requests |-> NoResponse ]
    /\ SplitOff
    /\ IngestOff
    /\ RunOff

\* onProgress?.(stage, n) inside a run invoking the shared field of the
\* WebInterface at the time of the event.
callbackInvoked_field(param, field) == field

\* onProgress?.(stage, n) inside a run: the function invoked is the run's
\* own onProgress parameter, whatever WebInterface.progressCallback holds by
\* then.
callbackInvoked(param, field) == param

\* Run r reports the percentages ps (in tenths): the callback invoked gets
\* them; field is what WebInterface.progressCallback holds at that time.
Report(r, param, field, ps) ==
    LET cb == callbackInvoked(param, field)
    IN  /\ emitted' = [ emitted EXCEPT ![r] = @ \o ps ]
        /\ callbackLog' =
              [ callbackLog EXCEPT ![cb] =
                  @ \o [ i \in 1..Len(ps) |->
                           [ run |-> r, tenths |-> ps[i], field |-> field ] ] ]

\* The catch block of the request handler: status 500 with the message.
Respond500(r, msg) ==
    /\ response' = [ response EXCEPT
                       ![r] = [ status |-> 500, body |-> NoResult, error |-> msg ] ]
    /\ wpc' = [ wpc EXCEPT ![r] = "responded" ]

\* req.on('end') of request r, up to the first await that suspends:
\* setProgressCallback, handleFormSubmission reads this.progressCallback as
\* the argument of generateFrom..., which reports 5 and awaits the analyzer.
\* A body without the locator of its source type throws at once.
HandleEnd(r) ==
    /\ wpc[r] = "received"
    /\ progressCallback' = r
    /\ IF reqData[r].locator
       THEN /\ onProgress' = [ onProgress EXCEPT ![r] = r ]
            /\ Report(r, r, r, << 50 >>)
            /\ wpc' = [ wpc EXCEPT ![r] = "ingest" ]
            /\ UNCHANGED response
       ELSE /\ Respond500(r, MsgInvalidForm)
            /\ UNCHANGED << onProgress, emitted, callbackLog >>
    /\ UNCHANGED << reqData, wfiles, generateArgs >>
    /\ UNCHANGED << splitVars, ingestVars, runVars >>

\* The analyzer call of run r settles; on success the run reports 10,
\* calls generateDocumentation, which reports 15 and awaits stage 1.
WebIngestSettle(r) ==
    /\ wpc[r] = "ingest"
    /\ \E out \in analyzerOutcomes(reqData[r].sourceType, TRUE) :
          IF out.threw
          THEN /\ Respond500(r, generatorCatch(IngestError))
               /\ UNCHANGED << wfiles, generateArgs, emitted, callbackLog >>
          ELSE /\ wfiles' = [ wfiles EXCEPT ![r] = out.files ]
               /\ generateArgs' =
                     [ generateArgs EXCEPT
                         ![r] = [ called |-> TRUE,
                                  files |-> out.files,
                                  projectName |-> reqData[r].projectName,
                                  options |-> documentationOptions(reqData[r]) ] ]
               /\ Report(r, onProgress[r], progressCallback,
                         << 100, forwardProgress(15) >>)
               /\ wpc' = [ wpc EXCEPT ![r] = "codeAnalysis" ]
               /\ UNCHANGED response
    /\ UNCHANGED << reqData, progressCallback, onProgress >>
    /\ UNCHANGED << splitVars, ingestVars, runVars >>

\* The awaited stage of run r settles and the run goes on to the stage
\* that reports percent.
WebStageSettle(r, stage, percent, next) ==
    /\ wpc[r] = stage
    /\ \E threw \in StageThrows :
          IF threw
          THEN /\ Respond500(r, generatorCatch(coordinatorCatch(ModelError)))
               /\ UNCHANGED << emitted, callbackLog >>
          ELSE /\ Report(r, onProgress[r], progressCallback,
                         << forwardProgress(percent) >>)
               /\ wpc' = [ wpc EXCEPT ![r] = next ]
               /\ UNCHANGED response
    /\ UNCHANGED << reqData, progressCallback, onProgress, wfiles, generateArgs >>
    /\ UNCHANGED << splitVars, ingestVars, runVars >>

\* res.writeHead(200); res.end(JSON.stringify(result))
Respond200(r) ==
    /\ response' = [ response EXCEPT
                       ![r] = [ status |-> 200,
                                body |-> parseSpecifications(WebSpecText,
                                                             generateArgs[r].files),
                                error |-> << >> ] ]
    /\ wpc' = [ wpc EXCEPT ![r] = "responded" ]

\* The specification generator of run r settles; the split runs; then the
\* delivery is awaited or the run completes and the request is answered.
WebGenerationSettle(r) ==
    /\ wpc[r] = "generation"
    /\ \E threw \in StageThrows :
          IF threw
          THEN /\ Respond500(r, generatorCatch(coordinatorCatch(ModelError)))
               /\ UNCHANGED << emitted, callbackLog >>
          ELSE IF deliveryRequested(generateArgs[r].options)
          THEN /\ Report(r, onProgress[r], progressCallback,
                         << forwardProgress(85), forwardProgress(95) >>)
               /\ wpc' = [ wpc EXCEPT ![r] = "delivery" ]
               /\ UNCHANGED response
          ELSE /\ Report(r, onProgress[r], progressCallback,
                         << forwardProgress(85), forwardProgress(100) >>)
               /\ Respond200(r)
    /\ UNCHANGED << reqData, progressCallback, onProgress, wfiles, generateArgs >>
    /\ UNCHANGED << splitVars, ingestVars, runVars >>

\* The delivery of run r settles; the run reports 100 and the request is
\* answered.
WebDeliverySettle(r) ==
    /\ wpc[r] = "delivery"
    /\ \E env \in DeliveryEnvs :
          IF sendDocumentation(env).threw
          THEN /\ Respond500(r, generatorCatch(coordinatorCatch(ModelError)))
               /\ UNCHANGED << emitted, callbackLog >>
          ELSE /\ Report(r, onProgress[r], progressCallback,
                         << forwardProgress(100) >>)
               /\ Respond200(r)
    /\ UNCHANGED << reqData, progressCallback, onProgress, wfiles, generateArgs >>
    /\ UNCHANGED << splitVars, ingestVars, runVars >>

NextWeb ==
    \/ \E r \in Requests : HandleEnd(r)
    \/ \E r \in Requests : WebIngestSettle(r)
    \/ \E r \in Requests : WebStageSettle(r, "codeAnalysis", 30, "docAnalysis")
    \/ \E r \in Requests : WebStageSettle(r, "docAnalysis", 50, "review")
    \/ \E r \in Requests : WebStageSettle(r, "review", 70, "generation")
    \/ \E r \in Requests : WebGenerationSettle(r)
    \/ \E r \in Requests : WebDeliverySettle(r)

SpecWeb == InitWeb /\ [][NextWeb]_vars

(* ------------------------------------------------------------------ *)
(* Properties                                                          *)
(* ------------------------------------------------------------------ *)

\* The character at 1-based position p of a content.
RECURSIVE CharAt(_, _)
CharAt(c, p) ==
    IF p <= Head(c).n THEN Head(c).ch ELSE CharAt(Tail(c), p - Head(c).n)

\* The first and last position of every run of a content.
Boundaries(c) ==
    UNION { { CLength(SubSeq(c, 1, i - 1)) + 1, CLength(SubSeq(c, 1, i)) } :
            i \in 1..Len(c) }

\* c and d have the same character at every position from 1 to k (both are
\* constant between two neighbouring boundaries).
AgreeUpTo(c, d, k) ==
    /\ CLength(c) >= k
    /\ CLength(d) >= k
    /\ \A p \in (Boundaries(c) \cup Boundaries(d) \cup { k }) \cap (1..k) :
          CharAt(c, p) = CharAt(d, p)

\* The decoded text the record with this path was built from.
RawOf(p) == (CHOOSE pr \in raws : pr[1] = p)[2]

Count(s, x) == Cardinality({ i \in 1..Len(s) : s[i] = x })

IsPermutation(s, t) ==
    /\ Len(s) = Len(t)
    /\ \A i \in 1..Len(s) : Count(s, s[i]) = Count(t, s[i])

NonDecreasing(s) == \A i \in 1..(Len(s) - 1) : s[i] <= s[i + 1]

\* C1: no returned FileRecord has content the binary heuristic classifies
\* as binary, whatever the length of the content.
C1_NoBinaryRecord ==
    ipc = "done" =>
        \A i \in 1..Len(returned) : ~isBinaryContent(returned[i].content)

C3_SplitRoundTrip ==
    (spc = "parsed" /\ hasMarker) =>
        /\ parsed.technicalSpec = trim(before)
        /\ parsed.functionalSpec = trim(after)

\* C4: whenever the combined text does not contain the marker, the splitter
\* returns technicalSpec = trim(combined) and the fixed fallback document.
C4_NoMarkerFallback ==
    (spc = "parsed" /\ ~includes(combined, Marker)) =>
        /\ parsed.technicalSpec = trim(combined)
        /\ parsed.functionalSpec = generateFallbackFunctionalSpec

\* C5: when delivery was requested and any part of the delivery capability
\* failed, the run still completed: the promise resolved with the result
\* holding both documents, and the last progress value is 100.
C5_DeliveryFailureTolerated ==
    ( /\ deliveryEnv # NoDelivery
      /\ \/ deliveryEnv.content = "fail"
         \/ deliveryEnv.token = "fail"
         \/ deliveryEnv.send = "fail" ) =>
        /\ rpc = "done"
        /\ runReturn.status = "resolved"
        /\ runReturn.value = result
        /\ runReturn.value # NoResult
        /\ runReturn.value.functionalSpec # << >>
        /\ progress[Len(progress)] = 100
        /\ outerProgress[Len(outerProgress)] = 1000

C5_Witness ==
    /\ rpc = "done"
    /\ deliveryRequested(options)
    /\ deliveryEnv.token = "fail"

\* C6: when delivery was attempted, the metadata of the returned result has
\* a deliverySucceeded field that is true exactly when the delivery
\* succeeded.
C6_DeliveryRecorded ==
    (rpc = "done" /\ deliveryEnv # NoDelivery) =>
        /\ "deliverySucceeded" \in DOMAIN runReturn.value.metadata
        /\ runReturn.value.metadata.deliverySucceeded
              = (deliveryEnv.token = "ok" /\ deliveryEnv.send = "ok")

\* C7: once one of the stages CodeAnalysis .. Split has raised a failure,
\* the run has failed with exactly that failure, the failing stage is the
\* last one invoked, no delivery was attempted, no result was returned and
\* progress 100 was never reported.
C7_StageFailureIsFatal ==
    raised.stage \in { "CodeAnalysis", "DocAnalysis", "Review", "Generation", "Split" } =>
        /\ rpc = "failed"
        /\ runReturn.status = "rejected"
        /\ runReturn.error = raised.error
        /\ runReturn.value = NoResult
        /\ calls[Len(calls)] = raised.stage
        /\ \A i \in 1..Len(calls) : calls[i] # "Delivery"
        /\ deliveryEnv = NoDelivery
        /\ \A i \in 1..Len(progress) : progress[i] # 100
        /\ \A i \in 1..Len(outerProgress) : outerProgress[i] # 1000

C7_Witness ==
    /\ rpc = "failed"
    /\ raised.stage = "Split"

\* C8: the percentages reported to either callback never decrease, and a
\* completed run has reported 15, 30, 50, 70, 85, (95 with delivery,) 100 to
\* the coordinator's callback and 5, 10, 23.5, 37, 55, 73, 86.5, (95.5,) 100
\* to the caller's (in tenths).
C8_ProgressMonotone ==
    /\ NonDecreasing(progress)
    /\ NonDecreasing(outerProgress)
    /\ rpc = "done" =>
          IF deliveryRequested(options)
          THEN /\ progress = << 15, 30, 50, 70, 85, 95, 100 >>
               /\ outerProgress = << 50, 100, 235, 370, 550, 730, 865, 955, 1000 >>
          ELSE /\ progress = << 15, 30, 50, 70, 85, 100 >>
               /\ outerProgress = << 50, 100, 235, 370, 550, 730, 865, 1000 >>

C8_Witness ==
    /\ rpc = "done"
    /\ progress = << 15, 30, 50, 70, 85, 95, 100 >>

\* C9: the returned sequence is a permutation of the records that were
\* pushed, sorted non-increasing by importance score.
C9_RankedPermutation ==
    ipc = "done" =>
        /\ IsPermutation(returned, survivors)
        /\ \A i \in 1..Len(returned) : \A j \in i..Len(returned) :
              getFileImportanceScore(returned[i].path)
                 >= getFileImportanceScore(returned[j].path)

C9_Witness ==
    /\ ipc = "done"
    /\ Len(returned) >= 3
    /\ returned # survivors

\* C10: sorting the returned sequence again leaves it as it is, records of
\* equal score included.
C10_RankingIdempotent ==
    ipc = "done" => sortFiles(returned) = returned

C10_Witness ==
    /\ ipc = "done"
    /\ \E i \in 1..(Len(returned) - 1) :
          getFileImportanceScore(returned[i].path)
             = getFileImportanceScore(returned[i + 1].path)

\* C11: when the tree-listing request was answered with status 404, the run
\* has failed with the 'Repository not found or access denied' error, no
\* FileRecord was collected or returned, and the tree-listing request is the
\* only request that was issued.
C11_NotFoundFails ==
    treeResponse.status = << "4", "0", "4" >> =>
        /\ ipc = "failed"
        /\ ierror = MsgNotFound
        /\ files = << >>
        /\ returned = << >>
        /\ items = << >>
        /\ fetchCalls = << FetchCall("tree", << >>) >>

C11_Witness ==
    /\ ipc = "failed"
    /\ treeResponse.status = << "4", "0", "4" >>
    /\ ~treeResponse.ok

\* The entries of the batch whose blob request failed: the call threw, the
\* status was not a success, or the encoding was not base64.
FailedFetches ==
    { i \in 1..Len(items) : \/ responses[i].threw
                            \/ ~responses[i].ok
                            \/ responses[i].encoding # "base64" }

\* The entries whose blob request succeeded with a text classified binary.
BinaryFetches ==
    { i \in (1..Len(items)) \ FailedFetches : isBinaryContent(responses[i].text) }

PathsOf(fs) == { fs[j].path : j \in 1..Len(fs) }

\* C12: a remote run whose tree listing succeeded does not fail, whatever
\* the blob requests do; of its n fetched entries, k of which failed, it
\* returns one FileRecord for each entry whose request succeeded with a
\* text not classified binary, and nothing else: n - k records when no text
\* is binary.
C12_FailedFetchesDropped ==
    /\ treeResponse.ok => (ipc \in { "fetching", "done" } /\ ierror = << >>)
    /\ (ipc = "done" /\ fetchCalls # << >>) =>
          LET n == Len(items)
              k == Cardinality(FailedFetches)
              kept == (1..n) \ (FailedFetches \cup BinaryFetches)
          IN  /\ Len(returned) = n - k - Cardinality(BinaryFetches)
              /\ PathsOf(returned) = { items[i].path : i \in kept }

C12_Witness ==
    /\ ipc = "done"
    /\ Len(items) = 4
    /\ \E a, b, c \in FailedFetches :
          /\ responses[a].threw
          /\ ~responses[b].threw /\ ~responses[b].ok
          /\ responses[c].ok
    /\ BinaryFetches = {}
    /\ Len(returned) = 1

Range(s) == { s[i] : i \in 1..Len(s) }

\* The size the tree reports for the entry at a path.
EntrySize(p) == tree[CHOOSE i \in 1..Len(tree) : tree[i].path = p].size

\* The blobs of the tree that only their size can exclude: a size of 0
\* passes the size test of both filters.
LocalCandidates ==
    { i \in 1..Len(tree) :
        /\ tree[i].type = "blob"
        /\ FsCall("stat", tree[i].path, FALSE) \in Range(fsCalls)
        /\ shouldIncludeFile(basename(tree[i].path), 0) }

RemoteCandidates ==
    { i \in 1..Len(tree) :
        /\ tree[i].type = "blob"
        /\ shouldIncludeGithubFile(tree[i].path, 0) }

\* Files of at most maxIncluded bytes, and no others, pass the size test:
\* every returned FileRecord comes from an entry of at most that size; in a
\* local run the content of a candidate was read exactly when its size is at
\* most that; in a remote run a candidate is among the fetched entries
\* exactly when its size is at most that.
SizeRule(maxIncluded) ==
    /\ ipc = "done" =>
          \A j \in 1..Len(returned) : EntrySize(returned[j].path) <= maxIncluded
    /\ ipc \in { "walking", "done" } =>
          \A i \in LocalCandidates :
              (\E err \in BOOLEAN :
                  FsCall("readFile", tree[i].path, err) \in Range(fsCalls))
                <=> tree[i].size <= maxIncluded
    /\ (ipc \in { "fetching", "done" } /\ fetchCalls # << >>) =>
          \A i \in RemoteCandidates :
              (tree[i] \in Range(items)) <=> tree[i].size <= maxIncluded

\* C13 as stated: only files strictly below 1,048,576 bytes pass the size
\* test, a file of exactly 1,048,576 bytes does not.
C13_BelowCeiling == SizeRule(1024 * 1024 - 1)

\* C13 as amended: files of at most 1,048,576 bytes pass the size test, a
\* file of exactly 1,048,576 bytes included; larger files do not.
C13_AtMostCeiling == SizeRule(1024 * 1024)

C13_Witness ==
    /\ ipc = "done"
    /\ \E j, k \in 1..Len(returned) :
          /\ EntrySize(returned[j].path) = 1024 * 1024
          /\ EntrySize(returned[k].path) < 1024 * 1024
    /\ \E i \in LocalCandidates \cup RemoteCandidates :
          /\ tree[i].size = 1024 * 1024 + 1
          /\ tree[i].path \notin PathsOf(returned)

\* C14: once the Review stage has returned for a response that does not
\* contain 'DOCUMENTATION ANALYSIS:', the reviewed result is the original
\* codeAnalysis and the original docAnalysis, and the Review stage raised no
\* failure.
C14_ReviewFallsBackToInputs ==
    ("Generation" \in Range(calls) /\ ~includes(enhancedAnalysis, DocLabel)) =>
        /\ reviewedAnalysis.codeAnalysis = codeAnalysis
        /\ reviewedAnalysis.docAnalysis = docAnalysis
        /\ raised.stage # "Review"

\* The stages of one run in the order of the state machine.
StageOrder ==
    << "CodeAnalysis", "DocAnalysis", "Review", "Generation", "Split", "Delivery" >>

\* C15: the stages invoked so far are the first stages of the state machine
\* in its order, each once; the stage being awaited is the last one invoked;
\* a completed run invoked all of CodeAnalysis .. Split and reported 100;
\* both analyses got the files, Review got the two analyses, Generation got
\* the two reviewed analyses, Split got the text Generation returned, and
\* the result is the split of that text.
C15_StagesInOrder ==
    /\ Len(calls) <= Len(StageOrder)
    /\ Len(stageInputs) = Len(calls)
    /\ \A i \in 1..Len(calls) : calls[i] = StageOrder[i]
    /\ rpc = "codeAnalysis" => Len(calls) = 1
    /\ rpc = "docAnalysis" => Len(calls) = 2
    /\ rpc = "review" => Len(calls) = 3
    /\ rpc = "generation" => Len(calls) = 4
    /\ rpc = "delivery" => Len(calls) = 6
    /\ rpc = "done" =>
          /\ Len(calls) >= 5
          /\ progress[Len(progress)] = 100
          /\ runReturn = Resolved(result)
    /\ Len(calls) >= 1 => stageInputs[1] = runFiles
    /\ Len(calls) >= 2 => stageInputs[2] = runFiles
    /\ Len(calls) >= 3 => stageInputs[3] = << codeAnalysis, docAnalysis >>
    /\ Len(calls) >= 4 =>
          stageInputs[4] = [ codeAnalysis |-> reviewedAnalysis.codeAnalysis,
                             docAnalysis |-> reviewedAnalysis.docAnalysis ]
    /\ (Len(calls) >= 5 /\ raised.stage # "Split") =>
          /\ stageInputs[5] = [ specifications |-> Text(specifications),
                                files |-> runFiles ]
          /\ result = parseSpecifications(specifications, runFiles)
    /\ Len(calls) >= 6 =>
          /\ stageInputs[6].technicalSpec = result.technicalSpec
          /\ stageInputs[6].functionalSpec = result.functionalSpec

C15_Witness ==
    /\ rpc = "done"
    /\ calls = StageOrder
    /\ reviewedAnalysis.codeAnalysis # reviewedAnalysis.docAnalysis
    /\ specifications # << >>

\* C16: the Delivery stage is invoked, 95 is reported and the delivery
\* collaborators act only when options.sendEmail is true and
\* options.recipientEmail is a non-empty string, and then they are once the
\* split is over; otherwise a completed run went from Split to 100 with no
\* send operation.
C16_DeliveryIffRequested ==
    LET requested == /\ options.sendEmail
                     /\ options.recipientEmail.some
                     /\ options.recipientEmail.val # << >>
        delivered == "Delivery" \in Range(calls)
    IN  /\ delivered => requested
        /\ delivered <=> 95 \in Range(progress)
        /\ deliveryEnv # NoDelivery => delivered
        /\ rpc = "delivery" => delivered
        /\ rpc = "done" =>
              /\ delivered <=> requested
              /\ delivered => deliveryEnv # NoDelivery
              /\ ~delivered =>
                    /\ calls[Len(calls)] = "Split"
                    /\ SubSeq(progress, Len(progress) - 1, Len(progress)) = << 85, 100 >>

C16_Witness ==
    /\ rpc = "done"
    /\ options.sendEmail
    /\ ~options.recipientEmail.some
    /\ "Delivery" \notin Range(calls)
    /\ progress[Len(progress)] = 100

\* C17: when the tree-listing request was answered with a non-success
\* status, the run failed with the not-found error for 404 and 403, with
\* the authentication error for 401, and for every other status with the
\* 'GitHub API error' message that carries the status, unchanged.
C17_StatusClassification ==
    (ipc = "failed" /\ fetchCalls # << >> /\ ~treeResponse.threw) =>
        LET status == treeResponse.status
        IN  IF status \in { << "4", "0", "4" >>, << "4", "0", "3" >> }
            THEN ierror = MsgNotFound
            ELSE IF status = << "4", "0", "1" >>
            THEN ierror = MsgAuthFailed
            ELSE /\ ierror = apiErrorMessage(treeResponse)
                 /\ includes(ierror, status)
                 /\ ierror \notin { MsgNotFound, MsgAuthFailed }

\* The first n elements of a sequence, all of them when it has fewer.
FirstOf(s, n) == IF Len(s) <= n THEN s ELSE SubSeq(s, 1, n)

\* The blobs of the tree the inclusion filter accepts, in listing order.
EligibleEntries ==
    SelectSeq(tree, LAMBDA e : e.type = "blob" /\ shouldIncludeGithubFile(e.path, e.size))

\* C18: a remote run issues at most one tree-listing request; once the
\* listing is answered, the blob requests issued are one for each of the
\* first 100 entries the filter accepts (all of them when there are fewer),
\* in that order, and no other; the run returns at most 100 FileRecords, all
\* of them from those entries.
C18_OneListingAtMost100Blobs ==
    LET treeCalls == { i \in 1..Len(fetchCalls) : fetchCalls[i].kind = "tree" }
        blobs == SelectSeq(fetchCalls, LAMBDA c : c.kind = "blob")
    IN  /\ Cardinality(treeCalls) <= 1
        /\ ipc \in { "idle", "failed" } => blobs = << >>
        /\ ipc \in { "fetching", "done" } =>
              /\ Cardinality(treeCalls) = 1
              /\ Len(blobs) <= 100
              /\ Len(blobs) = Len(items)
              /\ \A i \in 1..Len(items) : blobs[i].path = items[i].path
              /\ items = FirstOf(EligibleEntries, 100)
        /\ ipc = "done" =>
              /\ Len(returned) <= 100
              /\ PathsOf(returned) \subseteq PathsOf(items)

C18_Witness ==
    /\ ipc = "done"
    /\ Len(EligibleEntries) > 100
    /\ Len(tree) > Len(EligibleEntries)
    /\ Len(returned) = 100

\* The value the promise of entry i has for the answer its request got.
SettledValue(i) ==
    IF responses[i] = NoBlobResponse
    THEN Pending
    ELSE IF fetchGithubFileContent(responses[i]).some
         THEN Fetched(githubFileInfo(items[i],
                                     fetchGithubFileContent(responses[i]).val))
         ELSE Dropped

\* C19: while the batch is awaited, every blob request has been issued,
\* every request not yet answered can still be answered whatever the others
\* did, and nothing is ranked or returned; each promise has the value its
\* own answer gives it; the run returns only when no promise is pending, and
\* what it returns is the ranking of the values in entry order, whatever
\* the order the answers came in.
C19_BatchAwaitsAllRequests ==
    /\ ipc = "fetching" =>
          /\ fetchCalls = << FetchCall("tree", << >>) >> \o blobCalls(items)
          /\ files = << >>
          /\ returned = << >>
          /\ \A i \in 1..Len(items) :
                results[i] = Pending => ENABLED GithubFetchSettle(i)
    /\ ipc \in { "fetching", "done" } =>
          \A i \in 1..Len(items) : results[i] = SettledValue(i)
    /\ (ipc = "done" /\ fetchCalls # << >>) =>
          /\ \A i \in 1..Len(items) : results[i] # Pending
          /\ returned = sortFiles(nonNull([ i \in 1..Len(items) |-> SettledValue(i) ]))

C19_Witness ==
    /\ ipc = "fetching"
    /\ \E i, j, k \in 1..Len(items) :
          /\ i < j
          /\ results[i] = Pending
          /\ results[j] = Dropped
          /\ responses[j].threw
          /\ results[k].state = "file"

\* The directories above the entry at a path.
Ancestors(p) == { SubSeq(p, 1, i - 1) : i \in { j \in 1..Len(p) : p[j] = "/" } }

\* No fs call on the path itself threw.
NoErrorOn(p) ==
    /\ FsCall("stat", p, TRUE) \notin Range(fsCalls)
    /\ FsCall("readdir", p, TRUE) \notin Range(fsCalls)
    /\ FsCall("readFile", p, TRUE) \notin Range(fsCalls)

\* The files of the tree the local walk has to deliver: eligible files,
\* outside skipped paths, with no error on the file or on a directory above.
DueLocalFiles ==
    { i \in 1..Len(tree) :
        /\ tree[i].type = "blob"
        /\ ~shouldSkipPath(tree[i].path)
        /\ shouldIncludeFile(basename(tree[i].path), tree[i].size)
        /\ NoErrorOn(tree[i].path)
        /\ NoErrorOn(<< >>)
        /\ \A d \in Ancestors(tree[i].path) : ~shouldSkipPath(d) /\ NoErrorOn(d) }

\* C20: a local run never fails, and when it is over the content of every
\* eligible file was read unless the file itself or a directory above it
\* had an error, whatever errors other entries had; each file read with a
\* text that was kept is in the output.
C20_OnlyFailingEntrySkipped ==
    /\ fsCalls # << >> => ipc # "failed"
    /\ (ipc = "done" /\ fsCalls # << >>) =>
          \A i \in DueLocalFiles :
              /\ FsCall("readFile", tree[i].path, FALSE) \in Range(fsCalls)
              /\ (\E pr \in raws : pr[1] = tree[i].path)
                    => tree[i].path \in PathsOf(returned)

\* C21: a local run on a folder whose root cannot be read fails: once the
\* analyzer call has settled the promise of the run is rejected, and no
\* stage of the coordinator was invoked, so none was given an empty file
\* list.
C21_InaccessiblePathFails ==
    (sourceType = "local" /\ ~folderReadable /\ rpc \notin { "idle", "ingest" }) =>
        /\ rpc = "failed"
        /\ runReturn.status = "rejected"
        /\ calls = << >>
        /\ stageInputs = << >>

\* The segments of a slash-separated path.
Segments(p) == Range(split(p, << "/" >>))

\* A segment that contains a fragment of the deny-list.
DenyListed(seg) == \E k \in 1..Len(skipPatterns) : includes(seg, skipPatterns[k])

\* The records collected so far and the records returned.
RecordsSoFar ==
    Range(files) \cup Range(returned)
       \cup { results[i].file[1] : i \in { j \in 1..Len(results) : results[j].state = "file" } }

\* C22: no FileRecord of either ingestion path has a path with a segment
\* that contains a deny-list fragment or a segment, at any depth, that
\* begins with '.'.
C22_NoSkippedSegment ==
    \A f \in RecordsSoFar :
        \A seg \in Segments(f.path) :
            /\ ~DenyListed(seg)
            /\ ~startsWith(seg, << "." >>)

\* The number of levels an entry lies below the root: 0 for the root.
PathDepth(p) ==
    IF p = << >> THEN 0 ELSE Cardinality({ i \in 1..Len(p) : p[i] = "/" }) + 1

\* No fs call of the walk threw.
NoFsError == \A c \in Range(fsCalls) : ~c.threw

\* C23: analyzeLocalFolder returns on every tree, a symlink cycle and a
\* nesting deeper than the bound included.  No directory more than 10 levels
\* below the root is read and nothing inside such a directory is touched;
\* the run never fails; and when no fs call threw, every eligible file that
\* lies in a directory at most 10 levels below the root is returned,
\* whatever lies deeper.
C23_WalkTerminatesWithinDepth ==
    /\ [](\A c \in Range(fsCalls) :
            /\ c.op = "readdir" => PathDepth(c.path) <= 10
            /\ c.op \in { "stat", "readFile" } => PathDepth(c.path) <= 11)
    /\ [](ipc # "failed")
    /\ []((ipc = "done" /\ NoFsError) =>
            \A i \in 1..Len(tree) :
                ( /\ tree[i].type = "blob"
                  /\ PathDepth(tree[i].path) <= 11
                  /\ shouldIncludeFile(basename(tree[i].path), tree[i].size) )
                   => tree[i].path \in PathsOf(returned))
    /\ <>(ipc = "done")

C23_Witness ==
    /\ ipc = "done"
    /\ tree = DeepTree
    /\ FsCall("stat", Nest(<< "n" >>, 11), FALSE) \in Range(fsCalls)
    /\ PathsOf(returned) =
          { Inside(<< "n" >>, 10, <<"k",".","t","s">>), <<"z",".","t","s">> }

\* The score the rule list of the claim gives a path: rules 4 and 5 test
\* the beginning of the lower-cased base name, the others test as stated.
ScoreByRuleList(filePath) ==
    LET filename == toLowerCase(basename(filePath))
    IN  IF includes(filename, <<"r","e","a","d","m","e">>) THEN 100
        ELSE IF includes(filename, <<"p","a","c","k","a","g","e",".","j","s","o","n">>) THEN 95
        ELSE IF includes(filename, <<"d","o","c","k","e","r","f","i","l","e">>) THEN 90
        ELSE IF startsWith(filename, <<"m","a","i","n",".">>) \/ startsWith(filename, <<"i","n","d","e","x",".">>) THEN 85
        ELSE IF startsWith(filename, <<"a","p","p",".">>) \/ startsWith(filename, <<"s","e","r","v","e","r",".">>) THEN 80
        ELSE IF extname(filename) = <<".","m","d">> THEN 70
        ELSE IF includes(filename, <<"c","o","n","f","i","g">>) THEN 65
        ELSE IF includes(filename, <<"s","e","t","u","p">>) \/ includes(filename, <<"i","n","s","t","a","l","l">>) THEN 60
        ELSE IF extname(filename) \in
                  { <<".","j","s">>, <<".","t","s">>, <<".","p","y">>, <<".","j","a","v","a">>, <<".","c","s">>, <<".","c","p","p">>, <<".","g","o">>, <<".","r","s">> }
        THEN 50
        ELSE 30

\* C24: the importance score of every ingested file is the score of the
\* first matching rule of the list, where 'named main/index' and 'named
\* app/server' mean that the lower-cased base name begins with 'main.',
\* 'index.', 'app.' or 'server.'.
C24_ScoreFollowsRuleList ==
    \A f \in RecordsSoFar : getFileImportanceScore(f.path) = ScoreByRuleList(f.path)

\* The local walker reaches and accepts a file at path p of the given size:
\* no directory above it and not the file itself is skipped, and
\* shouldIncludeFile accepts its name and size.
LocalWouldAccept(p, size) ==
    /\ \A i \in 1..Len(p) : p[i] = "/" => ~shouldSkipPath(SubSeq(p, 1, i - 1))
    /\ ~shouldSkipPath(p)
    /\ shouldIncludeFile(basename(p), size)

\* C25: the remote filter keeps a blob entry exactly when the local walker
\* would reach and accept a file of that path and size; and a local walk in
\* which no fs call threw reads exactly the files the remote filter keeps.
C25_RemoteFilterMatchesLocalWalk ==
    /\ (request # NoRequest /\ ipc \in { "fetching", "done" }) =>
          \A i \in 1..Len(tree) :
              tree[i].type = "blob" =>
                 ( tree[i].path \in PathsOf(items)
                      <=> LocalWouldAccept(tree[i].path, tree[i].size) )
    /\ (request = NoRequest /\ ipc = "done" /\ NoFsError) =>
          \A i \in 1..Len(tree) :
              tree[i].type = "blob" =>
                 ( FsCall("readFile", tree[i].path, FALSE) \in Range(fsCalls)
                      <=> shouldIncludeGithubFile(tree[i].path, tree[i].size) )

C25_Witness ==
    /\ request # NoRequest
    /\ ipc = "fetching"
    /\ PathsOf(items) = { <<"a","/","b","/","c",".","t","s">> }
    /\ tree[Len(tree)].size = 1024 * 1024

\* The texts the content steps have been given so far: the raw text of every
\* record, and the decoded text of every blob answer.
TextsSeen ==
    { pr[2] : pr \in raws }
       \cup { responses[i].text :
                i \in { j \in 1..Len(responses) :
                          /\ ~responses[j].threw
                          /\ responses[j].ok
                          /\ responses[j].encoding = "base64" } }

\* C26: on every decoded text the remote content step and the local content
\* step give the same outcome: both drop the file or both yield the same
\* content, texts longer than 50,000 characters that are binary included.
C26_ContentStepsAgree ==
    \A t \in TextsSeen :
        fetchGithubFileContent([ threw |-> FALSE, ok |-> TRUE,
                                 encoding |-> "base64", text |-> t ])
           = readFileContent([ err |-> FALSE, data |-> t ])

\* C27: metadata.frameworks holds a label exactly when its keyword occurs,
\* letter case ignored, inside the content of one of the files (not across
\* two files' contents), no label twice; metadata.codeLanguages holds each
\* language tag of the files other than 'unknown', once.
C27_MetadataFromFiles ==
    spc = "parsed" =>
       LET fw == parsed.metadata.frameworks
           langs == parsed.metadata.codeLanguages
       IN  /\ \A k \in 1..Len(frameworkTable) :
                 (\E i \in 1..Len(fw) : fw[i] = frameworkTable[k][2])
                    <=> \E j \in 1..Len(splitFiles) :
                           CIncludes(CLower(splitFiles[j].content),
                                     CFromText(frameworkTable[k][1]))
           /\ \A i, j \in 1..Len(fw) : fw[i] = fw[j] => i = j
           /\ { langs[i] : i \in 1..Len(langs) }
                 = { splitFiles[j].language : j \in 1..Len(splitFiles) } \ { "unknown" }
           /\ \A i, j \in 1..Len(langs) : langs[i] = langs[j] => i = j

C27_Witness ==
    /\ spc = "parsed"
    /\ Len(splitFiles) = 2
    /\ splitFiles[1].content = CFromText(<<"r","e","a">>)
    /\ parsed.metadata.frameworks = << "Next.js" >>
    /\ parsed.metadata.codeLanguages = << "typescript" >>

\* C28: with two requests in progress on the one WebInterface, in every
\* interleaving the callback registered by a request is invoked with the
\* events of that request's run only and with all of them, in order,
\* whatever setProgressCallback of the other request did meanwhile; and
\* generateDocumentation of a run is given that run's files, project name
\* and options, and the answer of a request is computed from them.
C28_RunsAreIsolated ==
    \A r \in Requests :
        /\ \A i \in 1..Len(callbackLog[r]) : callbackLog[r][i].run = r
        /\ [ i \in 1..Len(callbackLog[r]) |-> callbackLog[r][i].tenths ] = emitted[r]
        /\ generateArgs[r].called =>
              /\ generateArgs[r].files = wfiles[r]
              /\ generateArgs[r].projectName = reqData[r].projectName
              /\ generateArgs[r].options = documentationOptions(reqData[r])
        /\ response[r].status = 200 =>
              /\ response[r].body = parseSpecifications(WebSpecText, wfiles[r])
              /\ emitted[r][Len(emitted[r])] = forwardProgress(100)

\* Both requests are answered with 200; the callback of request 1 was
\* invoked for run 1 while WebInterface.progressCallback held the callback
\* of request 2, run 1 reported its eight events and run 2, which delivers
\* by e-mail, its nine, and the two runs had different files.
C28_Witness ==
    /\ response[1].status = 200
    /\ response[2].status = 200
    /\ \E i \in 1..Len(callbackLog[1]) : callbackLog[1][i].field = 2
    /\ Len(callbackLog[1]) = 8
    /\ Len(callbackLog[2]) = 9
    /\ response[1].body.metadata # response[2].body.metadata

\* The blob request of the entry kept at position k was answered with a
\* text the content step keeps.
AnsweredWithText(k) ==
    /\ ~responses[k].threw
    /\ responses[k].ok
    /\ responses[k].encoding = "base64"
    /\ ~isBinaryContent(responses[k].text)

\* C29: a file at the source root whose name is one of the important
\* filenames and whose size is below the ceiling is ingested on both paths:
\* the local walk, when no fs call threw, reads it; the remote filter keeps
\* it, and it is in the output once its blob is answered with text.
C29_ImportantNamesIngestible ==
    \A i \in 1..Len(tree) :
        ( /\ tree[i].type = "blob"
          /\ \E n \in 1..Len(importantFiles) : tree[i].path = importantFiles[n]
          /\ tree[i].size < 1024 * 1024 )
        =>
        /\ (request = NoRequest /\ ipc = "done" /\ NoFsError) =>
              FsCall("readFile", tree[i].path, FALSE) \in Range(fsCalls)
        /\ (request # NoRequest /\ ipc \in { "fetching", "done" }) =>
              /\ tree[i].path \in PathsOf(items)
              /\ \A k \in 1..Len(items) :
                    (ipc = "done" /\ items[k].path = tree[i].path /\ AnsweredWithText(k))
                       => tree[i].path \in PathsOf(returned)

\* The repo segment with a trailing '.git' removed and nothing else changed.
WithoutGitSuffix(repo) ==
    LET suffix == <<".","g","i","t">>
        n == Len(repo) - Len(suffix)
    IN  IF n >= 0 /\ SubSeq(repo, n + 1, Len(repo)) = suffix
        THEN SubSeq(repo, 1, n)
        ELSE repo

\* C30: once analyzeGithubRepo has been called with a URL that holds
\* github.com/<owner>/<repo>, the tree requested is that of <owner> and of
\* <repo> with only a trailing '.git' removed; with any other URL the call
\* fails with 'Invalid GitHub repository URL format' and no request is made.
C30_TreeOfNamedRepository ==
    givenUrl # << >> =>
       LET match == matchGithubUrl(givenUrl)
       IN  IF match.ok
           THEN request = [ owner |-> match.owner,
                            repo |-> WithoutGitSuffix(match.repo) ]
           ELSE /\ ipc = "failed"
                /\ ierror = MsgInvalidUrl
                /\ fetchCalls = << >>

====
